---------------------------- MODULE Spec2Model ----------------------------
(***************************************************************************)
(* TI-Speak: the TMS5220 LPC speech synthesizer emulator.                  *)
(*                                                                         *)
(* The module models                                                       *)
(*   - the coefficient tables (core/coefficients.js),                      *)
(*   - the frame codec decodeFrames / encodeFrames (speech frame decoder), *)
(*   - the synthesis engine TMS5220 and its lattice filter LPCLattice.     *)
(*                                                                         *)
(* The engine is one JavaScript object; it is kept in the record `eng',    *)
(* one field per field the constructor assigns.  Every method is an        *)
(* operator from an engine record to the engine record after the call     *)
(* (and the value returned).  The callers' loops (synthesize,              *)
(* synthesizeFromFrames) advance one generateSample call per step.         *)
(***************************************************************************)
EXTENDS Integers, Sequences, FiniteSets, TLC

(***************************************************************************)
(* Bounds of the model.                                                    *)
(***************************************************************************)
\* generateNoise calls made in a row on one engine
MaxNoiseCalls == 131100
\* longest frame list handed to encodeFrames in the codec specification
MaxCodecFrames == 2
\* longest raw byte stream handed to decodeFrames in the codec specification
MaxRawBytes == 2
\* longest frame list encoded into a bitstream for the engine
MaxStreamFrames == 2
\* longest frame list handed to synthesizeFromFrames
MaxFrameList == 2
\* generateSample calls a caller makes by hand after one loadSpeechData
MaxManualSteps == 3
\* loadSpeechData calls since the engine was last reset
MaxLoads == 2

\* generateExcitation calls made by hand on one engine
MaxExciteCalls == 320

\* handleSpeak calls made on the page
MaxSpeaks == 3

\* calls of processTMS5220 on one LPCLattice
MaxLatticeCalls == 6

\* JavaScript numbers: the model keeps finite lattice values on a grid of
\* 1/Grid and finite up to MaxFinite grid units; beyond that a value is
\* Infinity, as a double beyond Number.MAX_VALUE is.  The model's range is far
\* narrower than a double's: a delay line that grows without bound reaches
\* Infinity (and then NaN) after fewer samples than in JavaScript; with the
\* parameters of the coefficient tables no value leaves the finite range.
Grid == 16
MaxFinite == 100000000

(***************************************************************************)
(* Coefficient tables.  Sequences are 1-based: TABLE[i] of the source is   *)
(* TABLE[i + 1] here.                                                      *)
(***************************************************************************)
\* an energy table whose largest entry is 115
ENERGY_TABLE_LOUD ==
  << 0, 1, 2, 3, 4, 6, 8, 11, 16, 23, 33, 47, 63, 85, 115, 0 >>

ENERGY_TABLE == << 0, 1, 2, 3, 4, 6, 8, 11, 16, 23, 33, 47, 63, 85, 114, 0 >>

PITCH_TABLE ==
  << 0, 15, 16, 17, 18, 19, 20, 21,
     22, 23, 24, 25, 26, 27, 28, 29,
     30, 31, 32, 33, 34, 35, 36, 37,
     38, 39, 40, 41, 42, 44, 46, 48,
     50, 52, 53, 56, 58, 60, 62, 65,
     68, 70, 72, 76, 78, 80, 84, 86,
     91, 94, 98, 101, 105, 109, 114, 118,
     122, 127, 132, 137, 142, 148, 153, 159 >>

K1_TABLE ==
  << -501, -498, -497, -495, -493, -491, -488, -482,
     -478, -474, -469, -464, -459, -452, -445, -437,
     -412, -380, -339, -288, -227, -158, -81, -1,
     80, 157, 226, 287, 337, 379, 411, 436 >>

K2_TABLE ==
  << -328, -303, -274, -244, -211, -175, -138, -99,
     -59, -18, 24, 64, 105, 143, 180, 215,
     248, 278, 306, 331, 354, 374, 392, 408,
     422, 435, 445, 455, 463, 470, 476, 506 >>

K3_TABLE ==
  << -441, -387, -333, -279, -225, -171, -117, -63,
     -9, 45, 98, 152, 206, 260, 314, 368 >>

K4_TABLE ==
  << -328, -273, -217, -161, -106, -50, 5, 61,
     116, 172, 228, 283, 339, 394, 450, 506 >>

K5_TABLE ==
  << -328, -282, -235, -189, -142, -96, -50, -3,
     43, 90, 136, 182, 229, 275, 322, 368 >>

K6_TABLE ==
  << -256, -212, -168, -123, -79, -35, 10, 54,
     98, 143, 187, 232, 276, 320, 365, 409 >>

K7_TABLE ==
  << -308, -260, -212, -164, -117, -69, -21, 27,
     75, 122, 170, 218, 266, 314, 361, 409 >>

K8_TABLE == << -256, -161, -66, 29, 124, 219, 314, 409 >>

K9_TABLE == << -256, -176, -96, -15, 65, 146, 226, 307 >>

K10_TABLE == << -205, -132, -59, 14, 87, 160, 234, 307 >>

K_TABLES ==
  << K1_TABLE, K2_TABLE, K3_TABLE, K4_TABLE, K5_TABLE,
     K6_TABLE, K7_TABLE, K8_TABLE, K9_TABLE, K10_TABLE >>

\* widths with a two-bit K10
K_BITS_NARROW == << 5, 5, 4, 4, 4, 4, 4, 3, 3, 2 >>

K_BITS == << 5, 5, 4, 4, 4, 4, 4, 3, 3, 3 >>

\* a chirp table with one more zero at its end
CHIRP_TABLE_LONG ==
  << 0, 3, 15, 40, 76, 108, 113, 80,
     37, 38, 76, 68, 26, 50, 59, 19,
     55, 26, 37, 31, 29, 0, 0, 0,
     0, 0, 0, 0, 0, 0, 0, 0,
     0, 0, 0, 0, 0, 0, 0, 0,
     0, 0, 0, 0, 0, 0, 0, 0,
     0, 0, 0, 0, 0 >>

CHIRP_TABLE ==
  << 0, 3, 15, 40, 76, 108, 113, 80,
     37, 38, 76, 68, 26, 50, 59, 19,
     55, 26, 37, 31, 29, 0, 0, 0,
     0, 0, 0, 0, 0, 0, 0, 0,
     0, 0, 0, 0, 0, 0, 0, 0,
     0, 0, 0, 0, 0, 0, 0, 0,
     0, 0, 0, 0 >>

CHIRP_TABLE_SIGNED ==
  [ i \in 1..Len(CHIRP_TABLE) |->
      IF CHIRP_TABLE[i] > 127 THEN CHIRP_TABLE[i] - 256 ELSE CHIRP_TABLE[i] ]

INTERP_COEFF == << 0, 3, 3, 3, 2, 2, 1, 1 >>

SAMPLE_RATE == 8000

SAMPLES_PER_FRAME == 200

INTERP_PERIODS == 8

SAMPLES_PER_INTERP == SAMPLES_PER_FRAME \div INTERP_PERIODS

(***************************************************************************)
(* Integer helpers for the JavaScript bit operators.                       *)
(***************************************************************************)
RECURSIVE Pow2(_)
Pow2(n) == IF n = 0 THEN 1 ELSE 2 * Pow2(n - 1)

\* (v >> i) & 1 for a non-negative v
BitOf(v, i) == (v \div Pow2(i)) % 2

\* x >> s on a 32-bit integer: the arithmetic shift, rounding toward minus
\* infinity (\div is the floor division)
Shr(x, s) == x \div Pow2(s)

Abs(x) == IF x < 0 THEN -x ELSE x

Min(a, b) == IF a < b THEN a ELSE b

Max(a, b) == IF a > b THEN a ELSE b

Zeros(n) == [ i \in 1..n |-> 0 ]

(***************************************************************************)
(* JavaScript numbers of the lattice filter.  A finite value v is the      *)
(* integer v * Grid (a fixed-point abstraction of the double); PosInf,     *)
(* NegInf and NaN are the three non-finite doubles.  The results of        *)
(* Math.round, Math.min and Math.max are in units of 1 and use the same    *)
(* three codes.                                                            *)
(***************************************************************************)
PosInf == MaxFinite + 1

NegInf == -(MaxFinite + 1)

NaN == MaxFinite + 2

IsFinite(x) == x >= -MaxFinite /\ x <= MaxFinite

\* a result of finite arithmetic: beyond the finite range it is an infinity
Overflow(n) ==
  IF n > MaxFinite THEN PosInf ELSE IF n < -MaxFinite THEN NegInf ELSE n

\* the integer v as a lattice number
FromInt(v) ==
  IF Abs(v) > MaxFinite \div Grid
    THEN (IF v > 0 THEN PosInf ELSE NegInf)
    ELSE v * Grid

\* a + b
FAdd(a, b) ==
  IF b = 0 THEN a
  ELSE IF a = NaN \/ b = NaN THEN NaN
  ELSE IF a = PosInf THEN (IF b = NegInf THEN NaN ELSE PosInf)
  ELSE IF a = NegInf THEN (IF b = PosInf THEN NaN ELSE NegInf)
  ELSE IF b = PosInf \/ b = NegInf THEN b
  ELSE Overflow(a + b)

\* -a
FNeg(a) == IF a = NaN THEN NaN ELSE -a

\* a - b
FSub(a, b) == FAdd(a, FNeg(b))

\* (k / 512.0) * a for an integer k: the product is rounded to the grid
FMulK(k, a) ==
  IF a = 0 THEN 0
  ELSE IF a = NaN THEN NaN
  ELSE IF a = PosInf \/ a = NegInf
    THEN (IF k = 0 THEN NaN ELSE IF k > 0 THEN a ELSE -a)
  ELSE IF k = 0 THEN 0
  ELSE LET q == a \div 512
           r == a % 512
       IN  IF Abs(k) > 0 /\ Abs(q) > (2000000000 \div Abs(k))
             THEN (IF (k > 0) = (a > 0) THEN PosInf ELSE NegInf)
             ELSE Overflow(k * q + ((k * r + 256) \div 512))

\* Math.round(a) of a lattice number: the nearest integer, halves upward
FRound(a) ==
  IF ~IsFinite(a) THEN a ELSE (2 * a + Grid) \div (2 * Grid)

\* Math.min(a, b) and Math.max(a, b) on integers and the non-finite codes
JsMin(a, b) == IF a = NaN \/ b = NaN THEN NaN ELSE Min(a, b)

JsMax(a, b) == IF a = NaN \/ b = NaN THEN NaN ELSE Max(a, b)

\* sample * 4 then Math.round, on an integer or a non-finite code
JsTimes4(a) == IF IsFinite(a) THEN 4 * a ELSE a

(***************************************************************************)
(* The bit stream: bit j of the stream is bit (j mod 8) of byte            *)
(* floor(j / 8); a bit beyond the last byte reads as 0 (the readBits loop  *)
(* skips it and still advances).                                           *)
(***************************************************************************)
StreamBit(bytes, j) ==
  IF j \div 8 < Len(bytes) THEN BitOf(bytes[(j \div 8) + 1], j % 8) ELSE 0

\* a loop that puts the first bit read at the top of the value
RECURSIVE FieldAtMsb(_, _, _)
FieldAtMsb(bytes, pos, numBits) ==
  IF numBits = 0 THEN 0
  ELSE StreamBit(bytes, pos) * Pow2(numBits - 1)
       + FieldAtMsb(bytes, pos + 1, numBits - 1)

\* the loop of readBits: value |= (bit << i) for i = 0 .. numBits - 1
RECURSIVE FieldAt(_, _, _)
FieldAt(bytes, pos, numBits) ==
  IF numBits = 0 THEN 0
  ELSE StreamBit(bytes, pos) + 2 * FieldAt(bytes, pos + 1, numBits - 1)

(***************************************************************************)
(* class LPCLattice                                                        *)
(***************************************************************************)
\* new LPCLattice(): eleven delay elements, delay[0..10]
NewLattice == Zeros(11)

\* a reset that clears delay[0] only
LatticeResetFirst(delay) == [delay EXCEPT ![1] = 0]

\* LPCLattice.reset()
LatticeReset(delay) == Zeros(11)

\* the stage loop of processTMS5220, stages i .. 0: the delay line and y
\* after it
RECURSIVE LatticeStages(_, _, _, _)

\* stage i, given its temp: the feedback path, y = temp, then the stages below
LatticeFeedback(delay, temp, k, i) ==
  LatticeStages([delay EXCEPT ![i + 1] = FAdd(delay[i + 1], FMulK(k[i + 1], temp))],
                temp, k, i - 1)

LatticeStages(delay, y, k, i) ==
  IF i < 0 THEN [delay |-> delay, y |-> y]
  ELSE LatticeFeedback(delay, FSub(y, FMulK(k[i + 1], delay[i + 1])), k, i)

\* the clamp of the lattice output to the 14-bit range
Clamp14(y) == JsMax(-8192, JsMin(8191, FRound(y)))

\* the shift of the delay line and the value returned, given the delay line
\* and y after the stage loop
LatticeShift(st) ==
  [delay |-> [ j \in 1..11 |->
                 IF j = 1 THEN st.y
                 ELSE IF j <= 10 THEN st.delay[j - 1]
                 ELSE st.delay[j] ],
   out   |-> Clamp14(st.y)]

\* a filter that does not scale the excitation by the energy
ProcessUnscaled(delay, excitation, energy, k) ==
  LatticeShift(LatticeStages(delay, FromInt(excitation), k, 9))

\* LPCLattice.processTMS5220(excitation, energy, k): the delay line after
\* the call and the value returned
ProcessTMS5220(delay, excitation, energy, k) ==
  LatticeShift(LatticeStages(delay, FromInt(excitation * energy), k, 9))

(***************************************************************************)
(* class TMS5220                                                           *)
(***************************************************************************)
\* frameData is null or an array: <<>> is null, <<bytes>> is the array
Null == <<>>

Some(x) == <<x>>

\* constructor()
NewEngine ==
  [ delay         |-> NewLattice,
    targetEnergy  |-> 0,
    targetPitch   |-> 0,
    targetK       |-> Zeros(10),
    currentEnergy |-> 0,
    currentPitch  |-> 0,
    currentK      |-> Zeros(10),
    interpCount   |-> 0,
    sampleCount   |-> 0,
    pitchCount    |-> 0,
    chirpIndex    |-> 0,
    noiseRegister |-> 131071,
    speaking      |-> FALSE,
    talkStatus    |-> FALSE,
    bufferLow     |-> TRUE,
    bufferEmpty   |-> TRUE,
    fifo          |-> <<>>,
    fifoBitPos    |-> 0,
    frameData     |-> Null,
    frameBitPos   |-> 0,
    rand          |-> "Math.random" ]

\* reset()
\* a reset() that leaves the place in the pitch period alone
ResetKeepsCursor(e) ==
  [ NewEngine EXCEPT !.pitchCount = e.pitchCount, !.rand = e.rand ]

Reset(e) ==
  [ e EXCEPT
      !.delay         = LatticeReset(e.delay),
      !.targetEnergy  = 0,
      !.targetPitch   = 0,
      !.targetK       = Zeros(10),
      !.currentEnergy = 0,
      !.currentPitch  = 0,
      !.currentK      = Zeros(10),
      !.interpCount   = 0,
      !.sampleCount   = 0,
      !.pitchCount    = 0,
      !.chirpIndex    = 0,
      !.noiseRegister = 131071,
      !.speaking      = FALSE,
      !.talkStatus    = FALSE,
      !.bufferLow     = TRUE,
      !.bufferEmpty   = TRUE,
      !.fifo          = <<>>,
      !.fifoBitPos    = 0,
      !.frameData     = Null,
      !.frameBitPos   = 0 ]

\* readBits(numBits): the engine after the call and the value read
ReadBits(e, numBits) ==
  IF e.frameData = Null \/ e.frameBitPos >= Len(e.frameData[1]) * 8
    THEN [eng |-> e, value |-> 0]
    ELSE [eng   |-> [e EXCEPT !.frameBitPos = @ + numBits],
          value |-> FieldAt(e.frameData[1], e.frameBitPos, numBits)]

\* targetK[i] = K_TABLES[i][readBits(K_BITS[i])] for i = first .. last
RECURSIVE ReadK(_, _, _)

\* targetK[i] = K_TABLES[i][r.value], r being what readBits(K_BITS[i]) gave,
\* then the reads for i + 1 .. last
StoreK(r, i, last) ==
  ReadK([r.eng EXCEPT !.targetK[i + 1] = K_TABLES[i + 1][r.value + 1]],
        i + 1, last)

ReadK(e, i, last) ==
  IF i > last THEN e ELSE StoreK(ReadBits(e, K_BITS[i + 1]), i, last)

\* "Reset interpolation counters" and return true
FrameRead(e) ==
  [eng |-> [e EXCEPT !.interpCount = 0, !.sampleCount = 0], ok |-> TRUE]

\* readNextFrame() from the pitchIndex test on; e3 is the engine after K1-K4
FrameAfterK4(pitchIndex, e3) ==
  FrameRead(IF pitchIndex = 0
              THEN [e3 EXCEPT !.targetK =
                      [ i \in 1..10 |-> IF i >= 5 THEN 0 ELSE e3.targetK[i] ]]
              ELSE ReadK(e3, 4, 9))

\* a repeat branch that clears the K targets
FrameAfterPitchClears(repeatFlag, rP) ==
  IF repeatFlag # 0
    THEN FrameRead([rP.eng EXCEPT !.targetPitch = PITCH_TABLE[rP.value + 1],
                                  !.targetK = Zeros(10)])
    ELSE FrameAfterK4(rP.value,
                      ReadK([rP.eng EXCEPT !.targetPitch = PITCH_TABLE[rP.value + 1]],
                            0, 3))

\* readNextFrame() from the pitch table lookup on; rP is what readBits(6) gave
FrameAfterPitch(repeatFlag, rP) ==
  IF repeatFlag # 0
    THEN FrameRead([rP.eng EXCEPT !.targetPitch = PITCH_TABLE[rP.value + 1]])
    ELSE FrameAfterK4(rP.value,
                      ReadK([rP.eng EXCEPT !.targetPitch = PITCH_TABLE[rP.value + 1]],
                            0, 3))

\* readNextFrame() from the read of the pitch on; rR is what readBits(1) gave
FrameAfterRepeat(rR) == FrameAfterPitch(rR.value, ReadBits(rR.eng, 6))

\* a silence branch that leaves the K targets and the pitch target alone
FrameAfterEnergyKeeps(rE) ==
  IF rE.value = 15
    THEN [eng |-> [rE.eng EXCEPT !.speaking = FALSE,
                                 !.talkStatus = FALSE,
                                 !.targetEnergy = 0],
          ok  |-> FALSE]
  ELSE IF rE.value = 0
    THEN [eng |-> [rE.eng EXCEPT !.targetEnergy = 0,
                                 !.interpCount = 0,
                                 !.sampleCount = 0],
          ok  |-> TRUE]
  ELSE FrameAfterRepeat(
         ReadBits([rE.eng EXCEPT !.targetEnergy = ENERGY_TABLE[rE.value + 1]], 1))

\* readNextFrame() from the stop code test on; rE is what readBits(4) gave
FrameAfterEnergy(rE) ==
  IF rE.value = 15
    THEN [eng |-> [rE.eng EXCEPT !.speaking = FALSE,
                                 !.talkStatus = FALSE,
                                 !.targetEnergy = 0],
          ok  |-> FALSE]
  ELSE IF rE.value = 0
    THEN [eng |-> [rE.eng EXCEPT !.targetEnergy = 0,
                                 !.targetPitch = 0,
                                 !.targetK = Zeros(10),
                                 !.interpCount = 0,
                                 !.sampleCount = 0],
          ok  |-> TRUE]
  ELSE FrameAfterRepeat(
         ReadBits([rE.eng EXCEPT !.targetEnergy = ENERGY_TABLE[rE.value + 1]], 1))

\* a readNextFrame that leaves the current values as they are
ReadNextFrameKeep(e) == FrameAfterEnergy(ReadBits(e, 4))

\* readNextFrame(): the engine after the call and the value returned
ReadNextFrame(e) ==
  FrameAfterEnergy(ReadBits([e EXCEPT !.currentEnergy = e.targetEnergy,
                                      !.currentPitch  = e.targetPitch,
                                      !.currentK      = e.targetK], 4))

\* a load that leaves the speaking flags as they are
LoadSpeechDataQuiet(e, data) ==
  ReadNextFrame([e EXCEPT !.frameData = Some(data), !.frameBitPos = 0]).eng

\* loadSpeechData(data)
LoadSpeechData(e, data) ==
  ReadNextFrame([e EXCEPT !.frameData = Some(data),
                          !.frameBitPos = 0,
                          !.speaking = TRUE,
                          !.talkStatus = TRUE]).eng

\* a feedback bit taken from this.rand
NoiseFeedbackRand(reg, rnd) == rnd

\* the feedback bit of generateNoise().  rnd is what a call of this.rand
\* (Math.random) would give at this sample: the code never makes that call.
NoiseFeedback(reg, rnd) == (BitOf(reg, 0) + BitOf(reg, 3)) % 2

\* a shift that feeds the bit back into bit 15
NoiseShiftLow(reg, rnd) == (reg \div 2) + NoiseFeedback(reg, rnd) * 32768

\* the noise register after generateNoise()
NoiseShift(reg, rnd) == (reg \div 2) + NoiseFeedback(reg, rnd) * 65536

\* generateNoise(): the value returned, given the register it leaves
NoiseValue(reg) == IF reg % 2 = 1 THEN 1 ELSE -1

\* generateNoise(): the engine after the call and the value returned
GenerateNoise(e, rnd) ==
  [eng   |-> [e EXCEPT !.noiseRegister = NoiseShift(e.noiseRegister, rnd)],
   value |-> NoiseValue(NoiseShift(e.noiseRegister, rnd))]

\* this.generateNoise() * 64, n being what generateNoise gave
NoiseScaled(n) == [eng |-> n.eng, value |-> n.value * 64]

\* a chirp playback that wraps inside the table
GenerateExcitationWraps(e, pitch, rnd) ==
  IF pitch = 0
    THEN NoiseScaled(GenerateNoise(e, rnd))
    ELSE [eng   |-> [e EXCEPT !.pitchCount =
                       IF e.pitchCount + 1 >= pitch THEN 0 ELSE e.pitchCount + 1],
          value |-> CHIRP_TABLE_SIGNED[(e.pitchCount % Len(CHIRP_TABLE_SIGNED)) + 1]]

\* a pitch counter that wraps only when it equals the pitch
GenerateExcitationWrapsAtEqual(e, pitch, rnd) ==
  IF pitch = 0
    THEN NoiseScaled(GenerateNoise(e, rnd))
    ELSE [eng   |-> [e EXCEPT !.pitchCount =
                       IF e.pitchCount + 1 = pitch THEN 0 ELSE e.pitchCount + 1],
          value |-> IF e.pitchCount < Len(CHIRP_TABLE_SIGNED)
                      THEN CHIRP_TABLE_SIGNED[e.pitchCount + 1]
                      ELSE 0]

\* generateExcitation(pitch): the engine after the call and the value returned
GenerateExcitation(e, pitch, rnd) ==
  IF pitch = 0
    THEN NoiseScaled(GenerateNoise(e, rnd))
    ELSE [eng   |-> [e EXCEPT !.pitchCount =
                       IF e.pitchCount + 1 >= pitch THEN 0 ELSE e.pitchCount + 1],
          value |-> IF e.pitchCount < Len(CHIRP_TABLE_SIGNED)
                      THEN CHIRP_TABLE_SIGNED[e.pitchCount + 1]
                      ELSE 0]

\* an interpolation whose shifted difference is rounded toward zero
InterpolateTrunc(current, target, period) ==
  IF period \notin 0..7 THEN target
  ELSE IF INTERP_COEFF[period + 1] = 0 THEN target
  ELSE IF target >= current
    THEN current + ((target - current) \div Pow2(INTERP_COEFF[period + 1]))
    ELSE current - ((current - target) \div Pow2(INTERP_COEFF[period + 1]))

\* interpolate(current, target, period).  INTERP_COEFF[period] is undefined
\* for a period outside 0..7, and diff >> undefined is diff >> 0.
Interpolate(current, target, period) ==
  LET shift == IF period \in 0..7 THEN INTERP_COEFF[period + 1] ELSE -1
  IN  IF shift = 0 THEN target
      ELSE IF shift = -1 THEN current + (target - current)
      ELSE current + Shr(target - current, shift)

\* the interpolated parameters of generateSample().  The pitch is rounded
\* with Math.round, which leaves an integer as it is.
EffectiveEnergy(e) == Interpolate(e.currentEnergy, e.targetEnergy, e.interpCount)

EffectivePitch(e) == Interpolate(e.currentPitch, e.targetPitch, e.interpCount)

EffectiveK(e) ==
  [ i \in 1..10 |-> Interpolate(e.currentK[i], e.targetK[i], e.interpCount) ]

\* the scaling of the lattice output to the 16-bit range
Scale16(sample) == JsMax(-32768, JsMin(32767, JsTimes4(sample)))

\* a generateSample without the early return
SilentNever(e) == FALSE

\* a frame that ends one interpolation period late
FrameEndsLate(interpCount) == interpCount > INTERP_PERIODS

\* if (!this.speaking)
Silent(e) == ~e.speaking

\* an interpolation period that ends one sample late
InterpPeriodEndsLate(sampleCount) == sampleCount > SAMPLES_PER_INTERP

\* if (this.sampleCount >= SAMPLES_PER_INTERP)
InterpPeriodEnds(sampleCount) == sampleCount >= SAMPLES_PER_INTERP

\* if (this.interpCount >= INTERP_PERIODS)
FrameEnds(interpCount) == interpCount >= INTERP_PERIODS

\* generateSample() after readNextFrame(), rd being what that call gave:
\* return 0 on a stop code, the sample otherwise
SampleAfterPull(rd, sample) ==
  [eng |-> rd.eng, value |-> IF rd.ok THEN sample ELSE 0, pulled |-> TRUE]

\* generateSample() from the frame end test on; e2 is the engine after
\* this.interpCount++
SampleAfterInterpCount(e2, sample) ==
  IF FrameEnds(e2.interpCount)
    THEN SampleAfterPull(ReadNextFrame([e2 EXCEPT !.interpCount = 0]), sample)
    ELSE [eng |-> e2, value |-> sample, pulled |-> FALSE]

\* generateSample() from the interpolation period test on; e1 is the engine
\* after this.sampleCount++
SampleAfterCount(e1, sample) ==
  IF InterpPeriodEnds(e1.sampleCount)
    THEN SampleAfterInterpCount(
           [e1 EXCEPT !.sampleCount = 0, !.interpCount = @ + 1], sample)
    ELSE [eng |-> e1, value |-> sample, pulled |-> FALSE]

\* generateSample() from the scaling on; lat is what processTMS5220 gave
SampleAfterFilter(e, lat) ==
  SampleAfterCount([e EXCEPT !.delay = lat.delay, !.sampleCount = @ + 1],
                   Scale16(lat.out))

\* generateSample() from the lattice filter on; ex is what
\* generateExcitation gave
SampleAfterExcitation(ex, energy, k) ==
  SampleAfterFilter(ex.eng, ProcessTMS5220(ex.eng.delay, ex.value, energy, k))

\* generateSample(): the engine after the call, the value returned, and
\* whether the call ran readNextFrame
GenerateSample(e, rnd) ==
  IF Silent(e) THEN [eng |-> e, value |-> 0, pulled |-> FALSE]
  ELSE SampleAfterExcitation(
         GenerateExcitation(e, EffectivePitch(e), rnd),
         EffectiveEnergy(e),
         EffectiveK(e))

(***************************************************************************)
(* The frame codec: decodeFrames and encodeFrames.  A frame is the         *)
(* JavaScript object, a record with the fields the code sets.              *)
(***************************************************************************)
\* bits read before K(i+1): K_BITS[0] + ... + K_BITS[i - 1]
RECURSIVE KOffset(_)
KOffset(i) == IF i = 0 THEN 0 ELSE K_BITS[i] + KOffset(i - 1)

\* the index read for K(i+1) of a frame whose K fields start at pos
KIndexAt(bytes, pos, i) == FieldAt(bytes, pos + KOffset(i), K_BITS[i + 1])

\* one pass of the while body of decodeFrames: the frame pushed and the bit
\* position after it
DecodeFrame(bytes, pos) ==
  LET energyIndex == FieldAt(bytes, pos, 4)
      repeat      == FieldAt(bytes, pos + 4, 1)
      pitchIndex  == FieldAt(bytes, pos + 5, 6)
      kpos        == pos + 11
  IN
  IF energyIndex = 15
    THEN [frame |-> [type |-> "stop", energyIndex |-> 15, energy |-> 0],
          pos   |-> pos + 4]
  ELSE IF energyIndex = 0
    THEN [frame |-> [type |-> "silence", energyIndex |-> 0, energy |-> 0],
          pos   |-> pos + 4]
  ELSE IF repeat = 1
    THEN [frame |-> [type |-> "repeat",
                     energyIndex |-> energyIndex,
                     energy |-> ENERGY_TABLE[energyIndex + 1],
                     repeat |-> TRUE,
                     pitchIndex |-> pitchIndex,
                     pitch |-> PITCH_TABLE[pitchIndex + 1]],
          pos   |-> pos + 11]
  ELSE IF pitchIndex = 0
    THEN LET kIndices == [ i \in 1..10 |->
                             IF i <= 4 THEN KIndexAt(bytes, kpos, i - 1) ELSE 0 ]
         IN  [frame |-> [type |-> "unvoiced",
                         energyIndex |-> energyIndex,
                         energy |-> ENERGY_TABLE[energyIndex + 1],
                         repeat |-> FALSE,
                         pitchIndex |-> pitchIndex,
                         pitch |-> PITCH_TABLE[pitchIndex + 1],
                         kIndices |-> kIndices,
                         k |-> [ i \in 1..10 |->
                                   IF i <= 4 THEN K_TABLES[i][kIndices[i] + 1] ELSE 0 ]],
              pos   |-> kpos + KOffset(4)]
  ELSE LET kIndices == [ i \in 1..10 |-> KIndexAt(bytes, kpos, i - 1) ]
       IN  [frame |-> [type |-> "voiced",
                       energyIndex |-> energyIndex,
                       energy |-> ENERGY_TABLE[energyIndex + 1],
                       repeat |-> FALSE,
                       pitchIndex |-> pitchIndex,
                       pitch |-> PITCH_TABLE[pitchIndex + 1],
                       kIndices |-> kIndices,
                       k |-> [ i \in 1..10 |-> K_TABLES[i][kIndices[i] + 1] ]],
            pos   |-> kpos + KOffset(10)]

\* a decoder that reads on behind a stop frame
DecodeBreaksNever(frame) == FALSE

\* the `break' of decodeFrames: the loop ends after a stop frame
DecodeBreaks(frame) == frame.type = "stop"

\* the while loop of decodeFrames: the frames pushed and the final bit position
RECURSIVE DecodeLoop(_, _, _)
DecodeLoop(bytes, pos, acc) ==
  IF pos >= Len(bytes) * 8 THEN [frames |-> acc, pos |-> pos]
  ELSE LET d == DecodeFrame(bytes, pos)
       IN  IF DecodeBreaks(d.frame)
             THEN [frames |-> Append(acc, d.frame), pos |-> d.pos]
             ELSE DecodeLoop(bytes, d.pos, Append(acc, d.frame))

\* decodeFrames(data)
decodeFrames(bytes) == DecodeLoop(bytes, 0, <<>>).frames

\* a writeBits that pushes the most significant bit first
WriteBitsMsb(value, numBits) == [ i \in 1..numBits |-> BitOf(value, numBits - i) ]

\* writeBits(value, numBits): the bits pushed
WriteBits(value, numBits) == [ i \in 1..numBits |-> BitOf(value, i - 1) ]

\* writeBits(frame.kIndices[i], K_BITS[i]) for i = from .. numK - 1
RECURSIVE WriteK(_, _, _)
WriteK(kIndices, i, numK) ==
  IF i >= numK THEN <<>>
  ELSE WriteBits(kIndices[i + 1], K_BITS[i + 1]) \o WriteK(kIndices, i + 1, numK)

\* the bits the for loop of encodeFrames pushes for one frame
EncodeFrame(frame) ==
  IF frame.type = "stop" THEN WriteBits(15, 4)
  ELSE IF frame.type = "silence" THEN WriteBits(0, 4)
  ELSE WriteBits(frame.energyIndex, 4)
       \o WriteBits(IF frame.repeat THEN 1 ELSE 0, 1)
       \o WriteBits(frame.pitchIndex, 6)
       \o (IF ~frame.repeat
             THEN WriteK(frame.kIndices, 0,
                         IF frame.type = "unvoiced" THEN 4 ELSE 10)
             ELSE <<>>)

RECURSIVE EncodeAll(_, _)
EncodeAll(fl, i) ==
  IF i > Len(fl) THEN <<>> ELSE EncodeFrame(fl[i]) \o EncodeAll(fl, i + 1)

\* an encoder that never appends a stop code
AppendsStopNever(fl) == FALSE

\* whether encodeFrames appends a stop code of its own
AppendsStop(fl) == Len(fl) = 0 \/ fl[Len(fl)].type # "stop"

\* the conversion of the bit list to bytes
PackBytes(bits) ==
  [ b \in 1..((Len(bits) + 7) \div 8) |->
      LET at(j) == IF 8 * (b - 1) + j + 1 <= Len(bits)
                     THEN bits[8 * (b - 1) + j + 1] * Pow2(j) ELSE 0
      IN  at(0) + at(1) + at(2) + at(3) + at(4) + at(5) + at(6) + at(7) ]

\* encodeFrames(frames)
encodeFrames(fl) ==
  PackBytes(EncodeAll(fl, 1) \o (IF AppendsStop(fl) THEN WriteBits(15, 4) ELSE <<>>))

(***************************************************************************)
(* State.                                                                  *)
(***************************************************************************)
VARIABLES
  eng,        \* the engine object (one TMS5220 instance)
  pc,         \* "idle", or the caller's loop that is running
  op,         \* the public operation called last
  ret,        \* the value the last generateSample call returned
  prev,       \* history: the engine before the last reset() or generateSample()
              \* made by hand
  maxSamples, \* synthesize: its local maxSamples
  nSamples,   \* samples.length of the running or last render
  tail,       \* the last (up to FadeLength) elements of samples
  surfaced,   \* the conditions the last render surfaced to its caller
  pulls,      \* history: readNextFrame calls since the last reset
  frames,     \* synthesizeFromFrames: the frame list argument
  fpos,       \* synthesizeFromFrames: <<frame, interp, s>> of the next sample
  loads,      \* loadSpeechData calls since the last reset
  manual,     \* generateSample calls made by hand since the last load
  twin,       \* a second engine, given the same calls as eng
  twinRet,    \* the value the twin's last generateSample call returned
  twinOn,     \* whether the second engine is in use
  codec,      \* the codec functions: their input and what they returned
  lat,        \* an LPCLattice of its own, and the calls made on it
  exc,        \* the generateExcitation calls made by hand: the pitch argument,
              \* the number of calls and the values returned
  ui          \* the browser page: its variables, its buttons, its audio
              \* sources and the handleSpeak calls in flight

vars == << eng, pc, op, ret, prev, maxSamples, nSamples, tail, surfaced,
           pulls, frames, fpos, loads, manual, twin, twinRet, twinOn, codec,
           lat, exc, ui >>

\* everything but the page
engineVarsOfPage ==
  << eng, pc, op, ret, prev, maxSamples, nSamples, tail, surfaced, pulls,
     frames, fpos, loads, manual, twin, twinRet, twinOn, codec, lat, exc >>

engineVars == << eng, pc, op, ret, prev, maxSamples, nSamples, tail, surfaced,
                 pulls, frames, fpos, loads, manual, twin, twinRet, twinOn,
                 lat, exc, ui >>

(***************************************************************************)
(* Inputs.                                                                 *)
(***************************************************************************)
SeqsUpTo(S, n) == UNION { [1..m -> S] : m \in 0..n }

VoicedF(e, p, ks) ==
  [type |-> "voiced", energyIndex |-> e, repeat |-> FALSE,
   pitchIndex |-> p, kIndices |-> ks]

UnvoicedF(e, ks) ==
  [type |-> "unvoiced", energyIndex |-> e, repeat |-> FALSE,
   pitchIndex |-> 0, kIndices |-> ks]

RepeatF(e, p) ==
  [type |-> "repeat", energyIndex |-> e, repeat |-> TRUE, pitchIndex |-> p]

SilenceF == [type |-> "silence", energyIndex |-> 0]

StopF == [type |-> "stop", energyIndex |-> 15]

\* the voiced frame of scenario S3 and the unvoiced frame of scenario S4
VoicedS3 == VoicedF(8, 30, << 16, 16, 8, 8, 8, 8, 8, 4, 4, 4 >>)

UnvoicedS4 == UnvoicedF(7, << 24, 10, 8, 6 >>)

\* frames handed to encodeFrames
CodecFrames ==
  { VoicedS3,
    VoicedF(14, 63, << 31, 31, 15, 15, 15, 15, 15, 7, 7, 7 >>),
    VoicedF(1, 1, << 0, 0, 0, 0, 0, 0, 0, 0, 0, 0 >>),
    UnvoicedS4,
    UnvoicedF(14, << 31, 31, 15, 15 >>),
    RepeatF(8, 30), RepeatF(1, 0), RepeatF(14, 63),
    SilenceF, StopF }

CodecFrameLists == SeqsUpTo(CodecFrames, MaxCodecFrames)

\* raw byte streams handed to decodeFrames
RawBytes == { 0, 15, 240, 255, 24, 167 }

RawStreams == SeqsUpTo(RawBytes, MaxRawBytes)

\* bitstreams for the engine that end with a stop code
StreamFrames == { VoicedS3, UnvoicedS4, RepeatF(11, 40), SilenceF }

StopStreams ==
  { encodeFrames(fl) : fl \in SeqsUpTo(StreamFrames, MaxStreamFrames) }

\* bitstreams without a stop code: the empty stream, and a voiced frame cut
\* two bits short
NoStopStreams == { <<>>, SubSeq(encodeFrames(<< VoicedS3 >>), 1, 6) }

\* bitstreams a caller loads by hand, and those it hands to synthesize
LoadStreams ==
  { <<>>, << 15 >>, encodeFrames(<< VoicedS3 >>), encodeFrames(<< UnvoicedS4 >>) }

ApiStreams ==
  { << 15 >>, encodeFrames(<< VoicedS3 >>), encodeFrames(<< UnvoicedS4 >>) }

\* the decoded K values of a list of K indices
KValues(kIndices) ==
  [ i \in 1..10 |->
      IF i <= Len(kIndices) THEN K_TABLES[i][kIndices[i] + 1] ELSE 0 ]

\* frame objects handed to synthesizeFromFrames: {energy, pitch, k}; `has'
\* names the properties that are defined
EFrame(energy, pitch, k) ==
  [has |-> {"energy", "pitch", "k"}, energy |-> energy, pitch |-> pitch, k |-> k]

EngineFrames ==
  { EFrame(16, 46, KValues(VoicedS3.kIndices)),
    EFrame(11, 0, KValues(UnvoicedS4.kIndices)),
    [has |-> {"energy", "pitch"}, energy |-> 4, pitch |-> 25, k |-> <<>>],
    EFrame(114, 20, << 1048576, 0, 0, 0, 0, 0, 0, 0, 0, 0 >>) }

EngineFrameLists == SeqsUpTo(EngineFrames, MaxFrameList)

\* frame lists a caller hands to synthesizeFromFrames between other calls
ApiFrameLists == { <<>>, << EFrame(16, 46, KValues(VoicedS3.kIndices)) >> }

\* what a call of this.rand (Math.random) could give
Rnd == IF twinOn THEN {0, 1} ELSE {0}

(***************************************************************************)
(* Calls of the engine.                                                    *)
(***************************************************************************)
\* samples.push(x), keeping the last FadeLength elements
FadeLength == 100

Push(t, x) ==
  IF Len(t) < FadeLength THEN Append(t, x) ELSE Append(Tail(t), x)

\* generateSample() on the engine e (and on the twin t)
EngSample(e) ==
  \E r \in Rnd :
    \E g \in { GenerateSample(e, r) } :
      /\ eng' = g.eng
      /\ ret' = g.value
      /\ pulls' = IF g.pulled THEN pulls + 1 ELSE pulls

TwinSample(t) ==
  IF twinOn
    THEN \E r \in Rnd :
           \E g \in { GenerateSample(t, r) } :
             /\ twin' = g.eng
             /\ twinRet' = g.value
    ELSE UNCHANGED << twin, twinRet >>

\* a call other than generateSample made on the twin too
TwinCall(t) ==
  /\ twin' = IF twinOn THEN t ELSE twin
  /\ twinRet' = 0

\* reset()
CallReset ==
  /\ pc = "idle"
  /\ prev' = eng
  /\ eng' = Reset(eng)
  /\ TwinCall(Reset(twin))
  /\ op' = "reset"
  /\ ret' = 0
  /\ pulls' = 0
  /\ loads' = 0
  /\ manual' = 0
  /\ UNCHANGED << pc, maxSamples, nSamples, tail, surfaced, frames, fpos,
                  twinOn, codec,
                  lat, exc, ui >>

\* loadSpeechData(data)
CallLoad ==
  /\ pc = "idle"
  /\ loads < MaxLoads
  /\ \E d \in LoadStreams :
       /\ eng' = LoadSpeechData(eng, d)
       /\ TwinCall(LoadSpeechData(twin, d))
  /\ prev' = NewEngine
  /\ op' = "load"
  /\ ret' = 0
  /\ pulls' = pulls + 1
  /\ loads' = loads + 1
  /\ manual' = 0
  /\ UNCHANGED << pc, maxSamples, nSamples, tail, surfaced, frames, fpos,
                  twinOn, codec,
                  lat, exc, ui >>

\* generateSample(), called by hand
CallStep ==
  /\ pc = "idle"
  /\ manual < MaxManualSteps
  /\ prev' = eng
  /\ EngSample(eng)
  /\ TwinSample(twin)
  /\ op' = "step"
  /\ manual' = manual + 1
  /\ UNCHANGED << pc, maxSamples, nSamples, tail, surfaced, frames, fpos,
                  loads, twinOn, codec,
                  lat, exc, ui >>

\* generateNoise(), called on its own
CallNoise ==
  /\ pc = "idle"
  /\ manual < MaxNoiseCalls
  /\ \E r \in Rnd :
       \E n \in { GenerateNoise(eng, r) } :
         /\ eng' = n.eng
         /\ ret' = n.value
  /\ op' = "noise"
  /\ manual' = manual + 1
  /\ UNCHANGED << prev, maxSamples, nSamples, tail, surfaced, pulls, frames,
                  fpos, loads, pc, twin, twinRet, twinOn, codec,
                  lat, exc, ui >>

\* the pitch arguments of generateExcitation calls made by hand: entries of
\* PITCH_TABLE below, at and above the length of the chirp table
ExcitePitches == { 15, 46, 52, 53, 60, 159 }

\* generateExcitation(pitch), called on its own: the first call with any
\* pitch, the later calls with the same one
CallExcite ==
  /\ pc = "idle"
  /\ exc.calls < MaxExciteCalls
  /\ \E p \in (IF exc.calls = 0 THEN ExcitePitches ELSE { exc.pitch }) :
       \E r \in Rnd :
         \E g \in { GenerateExcitation(eng, p, r) } :
           /\ eng' = g.eng
           /\ ret' = g.value
           /\ exc' = [pitch |-> p, calls |-> exc.calls + 1,
                      out |-> Append(exc.out, g.value)]
  /\ op' = "excite"
  /\ UNCHANGED << prev, maxSamples, nSamples, tail, surfaced, pulls, frames,
                  fpos, loads, manual, pc, twin, twinRet, twinOn, codec, lat,
                  ui >>

(***************************************************************************)
(* synthesize(data)                                                        *)
(***************************************************************************)
\* reset(), loadSpeechData(data) and the locals of synthesize
\* the call made on the engine and on the second engine t, with l and m the
\* counts of calls made by hand that stay on record
SynthStartOn(streams, t, l, m) ==
  /\ pc = "idle"
  /\ \E d \in streams :
       /\ eng' = LoadSpeechData(Reset(eng), d)
       /\ TwinCall(LoadSpeechData(Reset(t), d))
  /\ pc' = "synthesize"
  /\ op' = "synthesize"
  /\ ret' = 0
  /\ prev' = NewEngine
  /\ maxSamples' = SAMPLE_RATE * 30
  /\ nSamples' = 0
  /\ tail' = <<>>
  /\ surfaced' = {}
  /\ pulls' = 1
  /\ loads' = l
  /\ manual' = m
  /\ frames' = <<>>
  /\ fpos' = << 0, 0, 0 >>
  /\ UNCHANGED << twinOn, codec,
                  lat, exc, ui >>

SynthStartFrom(streams) == SynthStartOn(streams, twin, 0, 0)

SynthStart == SynthStartFrom(ApiStreams)

\* synthesize(data) on the engine every request shares, and on an engine
\* made for this request alone; the calls made by hand on the shared engine
\* before the request stay on record
FreshSynthStart == SynthStartOn(ApiStreams, NewEngine, loads, manual)

SynthStartStop == SynthStartFrom(StopStreams)

SynthStartAny == SynthStartFrom(StopStreams \cup NoStopStreams)

\* the condition of the while loop
SynthContinues(e, m) == e.speaking /\ m > 0

\* a loop that leaves maxSamples alone
SynthCountDownNone(m) == m

\* maxSamples--
SynthCountDown(m) == m - 1

\* samples.push(this.generateSample()); maxSamples--
SynthLoop ==
  /\ pc = "synthesize"
  /\ SynthContinues(eng, maxSamples)
  /\ EngSample(eng)
  /\ TwinSample(twin)
  /\ tail' = Push(tail, ret')
  /\ nSamples' = nSamples + 1
  /\ maxSamples' = SynthCountDown(maxSamples)
  /\ UNCHANGED << pc, op, prev, surfaced, frames, fpos, loads, manual,
                  twinOn, codec,
                  lat, exc, ui >>

\* Math.round(x * (fadeLength - i) / fadeLength), stored in the Int16Array
Fade(x, i, fadeLength) ==
  IF ~IsFinite(x) THEN 0
  ELSE (2 * x * (fadeLength - i) + fadeLength) \div (2 * fadeLength)

\* the fade-out and the return of synthesize
SynthReturn ==
  /\ pc = "synthesize"
  /\ ~SynthContinues(eng, maxSamples)
  /\ tail' = [ i \in 1..Len(tail) |-> Fade(tail[i], i - 1, Len(tail)) ]
  /\ surfaced' = {}
  /\ pc' = "idle"
  /\ UNCHANGED << eng, op, ret, prev, maxSamples, nSamples, pulls, frames,
                  fpos, loads, manual, twin, twinRet, twinOn, codec,
                  lat, exc, ui >>

(***************************************************************************)
(* synthesizeFromFrames(frames)                                            *)
(***************************************************************************)
\* the head of the for loop over the frames: the targets become the current
\* values and the frame's values the targets
FramePrelude(e, frame) ==
  [ e EXCEPT
      !.currentEnergy = e.targetEnergy,
      !.currentPitch  = e.targetPitch,
      !.currentK      = e.targetK,
      !.targetEnergy  = IF "energy" \in frame.has THEN frame.energy ELSE 0,
      !.targetPitch   = IF "pitch" \in frame.has THEN frame.pitch ELSE 0,
      !.targetK       = IF "k" \in frame.has
                          THEN [ i \in 1..10 |->
                                 IF i <= Len(frame.k) THEN frame.k[i] ELSE 0 ]
                          ELSE e.targetK ]

\* "Add final silence frame"
FinalPrelude(e) ==
  [ e EXCEPT !.currentEnergy = e.targetEnergy, !.targetEnergy = 0 ]

\* the engine right before the generateSample call at loop position
\* <<frame, interp, s>>
FramesBefore(e, fl, pos) ==
  IF pos[3] # 0 THEN e
  ELSE IF pos[2] # 0 THEN [e EXCEPT !.interpCount = pos[2]]
  ELSE IF pos[1] <= Len(fl)
    THEN [FramePrelude(e, fl[pos[1]]) EXCEPT !.interpCount = 0]
    ELSE [FinalPrelude(e) EXCEPT !.interpCount = 0]

\* loops whose inner bound is s <= SAMPLES_PER_INTERP
FramesAdvanceLong(pos) ==
  IF pos[3] + 1 <= SAMPLES_PER_INTERP THEN << pos[1], pos[2], pos[3] + 1 >>
  ELSE IF pos[2] + 1 < INTERP_PERIODS THEN << pos[1], pos[2] + 1, 0 >>
  ELSE << pos[1] + 1, 0, 0 >>

\* the loop position after <<frame, interp, s>>
FramesAdvance(pos) ==
  IF pos[3] + 1 < SAMPLES_PER_INTERP THEN << pos[1], pos[2], pos[3] + 1 >>
  ELSE IF pos[2] + 1 < INTERP_PERIODS THEN << pos[1], pos[2] + 1, 0 >>
  ELSE << pos[1] + 1, 0, 0 >>

\* reset() and the flags, on the engine and on the second engine t, with l
\* and m the counts of calls made by hand that stay on record
FramesStartOn(lists, t, l, m) ==
  /\ pc = "idle"
  /\ \E fl \in lists : frames' = fl
  /\ eng' = [Reset(eng) EXCEPT !.speaking = TRUE, !.talkStatus = TRUE]
  /\ TwinCall([Reset(t) EXCEPT !.speaking = TRUE, !.talkStatus = TRUE])
  /\ pc' = "frames"
  /\ op' = "synthesizeFromFrames"
  /\ ret' = 0
  /\ prev' = NewEngine
  /\ maxSamples' = 0
  /\ nSamples' = 0
  /\ tail' = <<>>
  /\ surfaced' = {}
  /\ pulls' = 0
  /\ loads' = l
  /\ manual' = m
  /\ fpos' = << 1, 0, 0 >>
  /\ UNCHANGED << twinOn, codec,
                  lat, exc, ui >>

FramesStartFrom(lists) == FramesStartOn(lists, twin, 0, 0)

FramesStart == FramesStartFrom(ApiFrameLists)

\* synthesizeFromFrames(frames) on the shared engine and on an engine made
\* for this request alone
FreshFramesStart == FramesStartOn(ApiFrameLists, NewEngine, loads, manual)

FramesStartAll == FramesStartFrom(EngineFrameLists)

\* samples.push(this.generateSample()) in either loop nest
FramesSample ==
  /\ pc = "frames"
  /\ fpos[1] <= Len(frames) + 1
  /\ EngSample(FramesBefore(eng, frames, fpos))
  /\ TwinSample(FramesBefore(twin, frames, fpos))
  /\ tail' = Push(tail, ret')
  /\ nSamples' = nSamples + 1
  /\ fpos' = FramesAdvance(fpos)
  /\ UNCHANGED << pc, op, prev, maxSamples, surfaced, frames, loads, manual,
                  twinOn, codec,
                  lat, exc, ui >>

\* this.speaking = false; return
FramesReturn ==
  /\ pc = "frames"
  /\ fpos[1] > Len(frames) + 1
  /\ eng' = [eng EXCEPT !.speaking = FALSE]
  /\ twin' = IF twinOn THEN [twin EXCEPT !.speaking = FALSE] ELSE twin
  /\ pc' = "idle"
  /\ UNCHANGED << op, ret, prev, maxSamples, nSamples, tail, surfaced, pulls,
                  frames, fpos, loads, manual, twinRet, twinOn, codec,
                  lat, exc, ui >>

(***************************************************************************)
(* The codec functions applied to their inputs.                            *)
(***************************************************************************)
NoCodec ==
  [pc |-> "none", F |-> <<>>, bytes |-> <<>>, out |-> <<>>, pos |-> 0,
   bytes2 |-> <<>>, out2 |-> <<>>]

\* bytes := encodeFrames(F)
CodecEncode ==
  /\ codec.pc = "frames"
  /\ codec' = [codec EXCEPT !.pc = "encoded", !.bytes = encodeFrames(codec.F)]
  /\ UNCHANGED engineVars

\* out := decodeFrames(bytes)
CodecDecode ==
  /\ codec.pc \in {"encoded", "bytes"}
  /\ LET d == DecodeLoop(codec.bytes, 0, <<>>)
     IN  codec' = [codec EXCEPT
                     !.pc = IF codec.pc = "encoded" THEN "roundtrip" ELSE "decoded",
                     !.out = d.frames,
                     !.pos = d.pos]
  /\ UNCHANGED engineVars

\* whether two streams have the same first n bits
SameBits(a, b, n) == \A j \in 0..(n - 1) : StreamBit(a, j) = StreamBit(b, j)

\* out2 := decodeFrames(bytes2), bytes2 being bytes with the bits behind its
\* stop code changed (to those of any other stream of the same length)
CodecTamper ==
  /\ codec.pc = "decoded"
  /\ Len(codec.out) > 0
  /\ codec.out[Len(codec.out)].type = "stop"
  /\ \E bs \in RawStreams :
       /\ Len(bs) = Len(codec.bytes)
       /\ bs # codec.bytes
       /\ SameBits(bs, codec.bytes, codec.pos)
       /\ codec' = [codec EXCEPT !.pc = "tampered",
                                 !.bytes2 = bs,
                                 !.out2 = decodeFrames(bs)]
  /\ UNCHANGED engineVars

\* loadSpeechData(bytes) on a new engine, bytes being the stream the codec
\* functions worked on
CodecLoad ==
  /\ codec.pc \in {"roundtrip", "decoded"}
  /\ op = "new"
  /\ eng' = LoadSpeechData(eng, codec.bytes)
  /\ op' = "load"
  /\ pulls' = pulls + 1
  /\ UNCHANGED << pc, ret, prev, maxSamples, nSamples, tail, surfaced, frames,
                  fpos, loads, manual, twin, twinRet, twinOn, codec,
                  lat, exc, ui >>

\* readNextFrame() on the engine that loaded the stream, once for every
\* further frame decodeFrames returned and as long as the engine is speaking
CodecPull ==
  /\ codec.pc \in {"roundtrip", "decoded"}
  /\ op \in {"load", "pull"}
  /\ eng.speaking
  /\ pulls < Len(codec.out)
  /\ \E rd \in { ReadNextFrame(eng) } : eng' = rd.eng
  /\ op' = "pull"
  /\ pulls' = pulls + 1
  /\ UNCHANGED << pc, ret, prev, maxSamples, nSamples, tail, surfaced, frames,
                  fpos, loads, manual, twin, twinRet, twinOn, codec, lat, exc, ui >>

(***************************************************************************)
(* processTMS5220 called on an LPCLattice of its own.                      *)
(***************************************************************************)
\* the K-vectors of the calls: those of the frames of scenarios S3 and S4,
\* the last and the first entries of the ten tables, vectors with entries of
\* magnitude 511 and 512, and the vector beyond the tables' range
LatticeKs ==
  { KValues(VoicedS3.kIndices),
    KValues(UnvoicedS4.kIndices),
    KValues(<< 31, 31, 15, 15, 15, 15, 15, 7, 7, 7 >>),
    KValues(<< 0, 0, 0, 0, 0, 0, 0, 0, 0, 0 >>),
    << 511, 0, 0, 0, 0, 0, 0, 0, 0, -511 >>,
    << 512, 0, 0, 0, 0, 0, 0, 0, 0, -512 >>,
    << 1048576, 0, 0, 0, 0, 0, 0, 0, 0, 0 >> }

\* <<excitation, energy>> of a call: the largest chirp value and either
\* noise value at the largest energy, and silence
LatticeInputs == { << 113, 114 >>, << 64, 114 >>, << -64, 114 >>, << 0, 0 >> }

\* lattice.processTMS5220(excitation, energy, k), the first call with any
\* K-vector, the later calls with the same one
LatticeCall ==
  /\ lat.calls < MaxLatticeCalls
  /\ \E k \in (IF lat.calls = 0 THEN LatticeKs ELSE { lat.k }) :
       \E x \in LatticeInputs :
         \E r \in { ProcessTMS5220(lat.delay, x[1], x[2], k) } :
           lat' = [delay |-> r.delay, k |-> k, out |-> r.out,
                   calls |-> lat.calls + 1]
  /\ UNCHANGED << eng, pc, op, ret, prev, maxSamples, nSamples, tail,
                  surfaced, pulls, frames, fpos, loads, manual, twin, twinRet,
                  twinOn, codec, exc, ui >>

(***************************************************************************)
(* The browser page (public/app.js).  Every event handler, timer callback  *)
(* and promise continuation runs to its next await before another starts.  *)
(***************************************************************************)
\* the page before init(): the variables as declared
NoUi ==
  [loaded |-> FALSE, isPlaying |-> FALSE, speakDisabled |-> FALSE,
   stopDisabled |-> TRUE, downloadDisabled |-> TRUE, status |-> "",
   audioContext |-> "null", audioSource |-> 0, currentAudioBlob |-> FALSE,
   sources |-> <<>>, calls |-> <<>>, speaks |-> 0]

\* textInput.value.trim() by what handleSpeak makes of it: empty, text that
\* textToFrames turns into no frame, text that it turns into frames
Texts == { "empty", "unspeakable", "speakable" }

\* the state in which new AudioContext() may come
NewContextStates == { "suspended", "running" }

\* source.stop() on the source numbered s, 0 being null: a source that
\* plays ends and its ended event is queued
StopSource(sources, s) ==
  IF s # 0 /\ sources[s] = "playing"
    THEN [sources EXCEPT ![s] = "ending"]
    ELSE sources

\* the first handleSpeak call that waits at the await named by at, or 0
FirstAt(calls, at) ==
  IF \E i \in 1..Len(calls) : calls[i].at = at
    THEN CHOOSE i \in 1..Len(calls) :
           /\ calls[i].at = at
           /\ \A j \in 1..(i - 1) : calls[j].at # at
    ELSE 0

\* the calls in flight without the i-th
Without(calls, i) ==
  SubSeq(calls, 1, i - 1) \o SubSeq(calls, i + 1, Len(calls))

\* handleSpeak up to its first await
HandleSpeak(u, text) ==
  IF text = "empty"
    THEN [u EXCEPT !.status = "Please enter some text",
                   !.speaks = @ + 1]
    ELSE [u EXCEPT !.status = "Synthesizing speech...",
                   !.speakDisabled = TRUE,
                   !.calls = Append(@, [at |-> "timer", text |-> text]),
                   !.speaks = @ + 1]

\* the catch block of handleSpeak, ending the i-th call
SpeakFails(u, i) ==
  [u EXCEPT !.status = "Error", !.speakDisabled = FALSE,
            !.calls = Without(@, i)]

\* playAudio from "if (audioSource)" on, then handleSpeak behind
\* "await playAudio(samples)", ending the i-th call
PlayAndFinish(u, i) ==
  [u EXCEPT !.sources = Append(StopSource(@, u.audioSource), "playing"),
            !.audioSource = Len(u.sources) + 1,
            !.isPlaying = TRUE,
            !.audioContext = "running",
            !.status = "Speaking...",
            !.stopDisabled = FALSE,
            !.downloadDisabled = FALSE,
            !.calls = Without(@, i)]

\* playAudio up to "await audioContext.resume()", the i-th call waiting
AwaitResume(u, i) ==
  [u EXCEPT !.audioContext = "suspended", !.calls[i].at = "resume"]

\* handleSpeak behind its timer, for the i-th call, ctx being the state of
\* the audio context that playAudio finds or makes
SpeakAfterTimer(u, i, ctx) ==
  IF u.calls[i].text = "unspeakable" THEN SpeakFails(u, i)
  ELSE IF ctx = "suspended"
    THEN AwaitResume([u EXCEPT !.currentAudioBlob = TRUE], i)
    ELSE PlayAndFinish([u EXCEPT !.currentAudioBlob = TRUE], i)

\* the audioSource.onended callback of the source numbered s
SourceOnEnded(u, s) ==
  [u EXCEPT !.sources[s] = "done", !.isPlaying = FALSE,
            !.speakDisabled = FALSE, !.stopDisabled = TRUE,
            !.status = "Ready"]

\* handleStop
HandleStop(u) ==
  [u EXCEPT !.sources = IF u.audioSource # 0 /\ u.isPlaying
                          THEN StopSource(@, u.audioSource) ELSE @,
            !.isPlaying = FALSE,
            !.speakDisabled = FALSE,
            !.stopDisabled = TRUE,
            !.status = "Stopped"]

\* init(); whether the page's markup has the Stop button disabled is not
\* in the script
UiLoad ==
  /\ ~ui.loaded
  /\ \E sd \in BOOLEAN :
       ui' = [NoUi EXCEPT !.loaded = TRUE, !.stopDisabled = sd,
                          !.status = "Ready - Type text and click SPEAK"]
  /\ UNCHANGED engineVarsOfPage

\* a click on the Speak button
ClickSpeak ==
  /\ ui.loaded
  /\ ~ui.speakDisabled
  /\ ui.speaks < MaxSpeaks
  /\ \E text \in Texts : ui' = HandleSpeak(ui, text)
  /\ UNCHANGED engineVarsOfPage

\* Ctrl+Enter
KeyCtrlEnter ==
  /\ ui.loaded
  /\ ui.speaks < MaxSpeaks
  /\ \E text \in Texts : ui' = HandleSpeak(ui, text)
  /\ UNCHANGED engineVarsOfPage

\* the 10 ms timer of the oldest handleSpeak call that waits for it
TimerFires ==
  /\ FirstAt(ui.calls, "timer") # 0
  /\ \E ctx \in (IF ui.audioContext = "null" THEN NewContextStates
                  ELSE { ui.audioContext }) :
       ui' = SpeakAfterTimer(ui, FirstAt(ui.calls, "timer"), ctx)
  /\ UNCHANGED engineVarsOfPage

\* audioContext.resume() settles for the oldest call that waits for it
ResumeSettles ==
  /\ FirstAt(ui.calls, "resume") # 0
  /\ ui' = PlayAndFinish(ui, FirstAt(ui.calls, "resume"))
  /\ UNCHANGED engineVarsOfPage

\* a source plays its buffer to the end
SourceEnds ==
  /\ \E s \in 1..Len(ui.sources) :
       /\ ui.sources[s] = "playing"
       /\ ui' = [ui EXCEPT !.sources[s] = "ending"]
  /\ UNCHANGED engineVarsOfPage

\* the ended event of a source that has ended or was stopped
OnEnded ==
  /\ \E s \in 1..Len(ui.sources) :
       /\ ui.sources[s] = "ending"
       /\ ui' = SourceOnEnded(ui, s)
  /\ UNCHANGED engineVarsOfPage

\* a click on the Stop button
ClickStop ==
  /\ ui.loaded
  /\ ~ui.stopDisabled
  /\ ui' = HandleStop(ui)
  /\ UNCHANGED engineVarsOfPage

\* Escape
KeyEscape ==
  /\ ui.loaded
  /\ ui.isPlaying
  /\ ui' = HandleStop(ui)
  /\ UNCHANGED engineVarsOfPage

(***************************************************************************)
(* Specifications.                                                         *)
(***************************************************************************)
InitEngine ==
  /\ eng = NewEngine
  /\ pc = "idle"
  /\ op = "new"
  /\ ret = 0
  /\ prev = NewEngine
  /\ maxSamples = 0
  /\ nSamples = 0
  /\ tail = <<>>
  /\ surfaced = {}
  /\ pulls = 0
  /\ frames = <<>>
  /\ fpos = << 0, 0, 0 >>
  /\ loads = 0
  /\ manual = 0
  /\ twin = NewEngine
  /\ twinRet = 0
  /\ lat = [delay |-> NewLattice, k |-> Zeros(10), out |-> 0, calls |-> 0]
  /\ exc = [pitch |-> 0, calls |-> 0, out |-> <<>>]
  /\ ui = NoUi

\* one engine, any sequence of public calls
Init == InitEngine /\ twinOn = FALSE /\ codec = NoCodec

Next ==
  \/ CallReset
  \/ CallLoad
  \/ CallStep
  \/ SynthStart
  \/ SynthLoop
  \/ SynthReturn
  \/ FramesStart
  \/ FramesSample
  \/ FramesReturn

Spec == Init /\ [][Next]_vars

\* the two renders, on every bitstream that ends with a stop code and every
\* frame list
NextRender ==
  \/ SynthStartStop
  \/ SynthLoop
  \/ SynthReturn
  \/ FramesStartAll
  \/ FramesSample
  \/ FramesReturn

SpecRender == Init /\ [][NextRender]_vars

\* synthesize of any bitstream, with or without a stop code
NextCap == SynthStartAny \/ SynthLoop \/ SynthReturn

SpecCap == Init /\ [][NextCap]_vars

\* two engines given the same calls
InitTwin == InitEngine /\ twinOn = TRUE /\ codec = NoCodec

SpecTwin == InitTwin /\ [][Next]_vars

\* one engine shared by every request, as the server's, next to an engine
\* made anew for each render
NextFresh ==
  \/ CallReset
  \/ CallLoad
  \/ CallStep
  \/ FreshSynthStart
  \/ SynthLoop
  \/ SynthReturn
  \/ FreshFramesStart
  \/ FramesSample
  \/ FramesReturn

SpecFresh == InitTwin /\ [][NextFresh]_vars

\* the page, under every interleaving of its events
NextUi ==
  \/ UiLoad
  \/ ClickSpeak
  \/ KeyCtrlEnter
  \/ TimerFires
  \/ ResumeSettles
  \/ SourceEnds
  \/ OnEnded
  \/ ClickStop
  \/ KeyEscape

SpecUi == Init /\ [][NextUi]_vars

\* the noise generator run on its own from the constructor's seed
SpecNoise == Init /\ [][CallNoise]_vars

\* the lattice filter on its own, any K-vector and any input sequence
SpecLattice == Init /\ [][LatticeCall]_vars

\* the excitation generator run on its own with a constant pitch
SpecExcite == Init /\ [][CallExcite]_vars

\* the codec functions on frame lists and on raw byte streams
InitCodec ==
  /\ InitEngine
  /\ twinOn = FALSE
  /\ \/ \E fl \in CodecFrameLists : codec = [NoCodec EXCEPT !.pc = "frames", !.F = fl]
     \/ \E bs \in RawStreams : codec = [NoCodec EXCEPT !.pc = "bytes", !.bytes = bs]

NextCodec ==
  CodecEncode \/ CodecDecode \/ CodecTamper \/ CodecLoad \/ CodecPull

SpecCodec == InitCodec /\ [][NextCodec]_vars

(***************************************************************************)
(* Properties.                                                             *)
(***************************************************************************)
\* what the round trip compares: variant, energy index, repeat flag, pitch
\* index and the K indices the variant carries
Canon(f) ==
  IF f.type \in {"stop", "silence"}
    THEN [type |-> f.type, energyIndex |-> f.energyIndex]
  ELSE IF f.type = "repeat"
    THEN [type |-> f.type, energyIndex |-> f.energyIndex,
          repeat |-> f.repeat, pitchIndex |-> f.pitchIndex]
  ELSE [type |-> f.type, energyIndex |-> f.energyIndex,
        repeat |-> f.repeat, pitchIndex |-> f.pitchIndex,
        kIndices |-> SubSeq(f.kIndices, 1, IF f.type = "unvoiced" THEN 4 ELSE 10)]

CanonList(fl) == [ i \in 1..Len(fl) |-> Canon(fl[i]) ]

\* F with a terminal stop frame appended when it does not end with one
WithTerminalStop(fl) ==
  IF Len(fl) > 0 /\ fl[Len(fl)].type = "stop" THEN fl ELSE Append(fl, StopF)

\* no stop frame in F except, possibly, the last frame
StopOnlyLast(fl) == \A i \in 1..(Len(fl) - 1) : fl[i].type # "stop"

RoundTrips == CanonList(codec.out) = CanonList(WithTerminalStop(codec.F))

\* C1 (as stated): for every list F of well-formed frames,
\* decodeFrames(encodeFrames(F)) equals F up to a terminal stop frame appended
\* when F does not end with one.
C1_RoundTripAnyList == codec.pc = "roundtrip" => RoundTrips

\* C1 (amended): for every list F of well-formed frames in which a stop frame
\* occurs only as the last frame, decodeFrames(encodeFrames(F)) equals F up to
\* a terminal stop frame appended when F does not end with one, comparing
\* variant, energy index, repeat flag, pitch index and the K indices present.
C1_RoundTrip == (codec.pc = "roundtrip" /\ StopOnlyLast(codec.F)) => RoundTrips

C1_Witness ==
  /\ codec.pc = "roundtrip"
  /\ codec.F = << VoicedS3, UnvoicedS4 >>
  /\ Len(codec.out) = 3
  /\ codec.out[1].kIndices = VoicedS3.kIndices
  /\ codec.out[3].type = "stop"

\* C2: synthesize never holds more than 30 s of samples (240,000): every
\* pass of its loop adds one sample and takes one from maxSamples, so the loop
\* ends and the array returned has at most 240,000 elements, with or without
\* a stop code in the stream.
C2_SampleCap ==
  /\ nSamples <= SAMPLE_RATE * 30
  /\ pc = "synthesize" =>
       (maxSamples >= 0 /\ nSamples + maxSamples = SAMPLE_RATE * 30)

C2_Witness ==
  /\ pc = "idle"
  /\ op = "synthesize"
  /\ eng.frameData = Some(<<>>)
  /\ nSamples = SAMPLE_RATE * 30

\* every bit of the loaded stream has been read
StreamExhausted(e) ==
  e.frameData # Null /\ e.frameBitPos >= Len(e.frameData[1]) * 8

\* C3: once the engine has read the last bit of its stream, the next frame
\* pull sets speaking to false.
C3_ExhaustionStops ==
  [][(pc = "synthesize" /\ StreamExhausted(eng) /\ pulls' = pulls + 1)
       => ~eng'.speaking]_vars

\* C4: when synthesize returns, speaking is false, or the overlong render is
\* surfaced to the caller.
C4_OverlongSurfaced ==
  (pc = "idle" /\ op = "synthesize")
    => (~eng.speaking \/ "OverlongSpeech" \in surfaced)

\* C5: during synthesize the engine pulls a frame at load and then once
\* every 200 samples, no earlier and no later; a stream of n frames before
\* its stop code gives exactly 200 * n samples.
C5_FrameTiming ==
  /\ pc = "synthesize" => pulls = 1 + (nSamples \div SAMPLES_PER_FRAME)
  /\ (pc = "idle" /\ op = "synthesize")
       => /\ nSamples = SAMPLES_PER_FRAME * (Len(decodeFrames(eng.frameData[1])) - 1)
          /\ pulls = Len(decodeFrames(eng.frameData[1]))

C5_Witness ==
  /\ pc = "idle"
  /\ op = "synthesize"
  /\ eng.frameData = Some(encodeFrames(<< VoicedS3, UnvoicedS4 >>))
  /\ nSamples = 400
  /\ pulls = 3

\* C6: decodeFrames stops at the first stop code: its result holds at most
\* one stop frame, as its last element, and does not depend on the bits
\* behind that stop code.
C6_StopsAtFirstStop ==
  /\ codec.pc \in {"decoded", "roundtrip", "tampered"}
       => \A i \in 1..Len(codec.out) :
            codec.out[i].type = "stop" => i = Len(codec.out)
  /\ codec.pc = "tampered" => codec.out2 = codec.out

C6_Witness ==
  /\ codec.pc = "tampered"
  /\ codec.bytes = << 240, 255 >>
  /\ codec.bytes2 = << 240, 24 >>
  /\ Len(codec.out) = 2
  /\ codec.out2 = codec.out

\* C7: reset() leaves the engine, its lattice filter included, in the state
\* the constructor gives.
C7_ResetRestores == op = "reset" => eng = NewEngine

C7_Witness ==
  /\ op = "reset"
  /\ prev.speaking
  /\ prev.frameData # Null
  /\ prev.noiseRegister # NewEngine.noiseRegister
  /\ prev.delay # NewLattice
  /\ eng = NewEngine

C9_SilentStep == (op = "step" /\ ~prev.speaking) => (eng = prev /\ ret = 0)

C9_Witness ==
  /\ op = "step"
  /\ ~prev.speaking
  /\ prev.frameData # Null
  /\ prev.delay # NewLattice
  /\ eng = prev
  /\ ret = 0

\* C10: every value generateSample returns is an integer of the 16-bit
\* signed range.
C10_OutputRange == ret \in -32768..32767

\* the period of a 17-bit maximal-length shift register: 2^17 - 1
NoisePeriod == Pow2(17) - 1

\* C11: from the seed 0x1FFFF the noise register stays in 1..0x1FFFF (it is
\* never all-zeros) and is back at 0x1FFFF after 131071 updates, not sooner.
C11_NoisePeriod ==
  /\ eng.noiseRegister \in 1..131071
  /\ op = "noise" =>
       ((eng.noiseRegister = 131071) <=> (manual % NoisePeriod = 0))

C11_Witness ==
  /\ op = "noise"
  /\ manual = NoisePeriod
  /\ eng.noiseRegister = 131071

\* C12: synthesizeFromFrames(F) returns 200 samples for every frame of F and
\* 200 more for the final silence frame, and leaves speaking false.
C12_FramesLength ==
  (pc = "idle" /\ op = "synthesizeFromFrames")
    => /\ nSamples = SAMPLES_PER_FRAME * (Len(frames) + 1)
       /\ ~eng.speaking

C12_Witness ==
  /\ pc = "idle"
  /\ op = "synthesizeFromFrames"
  /\ Len(frames) = 2
  /\ nSamples = 600
  /\ ~eng.speaking

\* the stream decodes to one or more silence frames followed by a stop frame
SilenceOnly(data) ==
  /\ Len(decodeFrames(data)) >= 2
  /\ \A i \in 1..Len(decodeFrames(data)) :
       decodeFrames(data)[i].type =
         (IF i = Len(decodeFrames(data)) THEN "stop" ELSE "silence")

\* C13: synthesize of a stream of silence frames and a stop code returns
\* zeros only, and the delay line of the lattice filter stays all-zero.
C13_SilenceIsZero ==
  (op = "synthesize" /\ SilenceOnly(eng.frameData[1]))
    => /\ ret = 0
       /\ eng.delay = Zeros(11)
       /\ \A i \in 1..Len(tail) : tail[i] = 0

C13_Witness ==
  /\ pc = "idle"
  /\ op = "synthesize"
  /\ eng.frameData = Some(encodeFrames(<< SilenceF, SilenceF >>))
  /\ nSamples = 400
  /\ eng.noiseRegister # NewEngine.noiseRegister
  /\ eng.delay = Zeros(11)

\* C14: whenever no public operation is running, talkStatus equals speaking.
C14_TalkStatusIsSpeaking == pc = "idle" => eng.talkStatus = eng.speaking

\* bytes of the loaded stream of which no bit has been read yet
UnreadBytes(e) ==
  Max(0, Len(e.frameData[1]) - ((e.frameBitPos + 7) \div 8))

\* C15: after loadSpeechData and after every generateSample, bufferEmpty is
\* true exactly when every bit of the stream has been read, and bufferLow
\* exactly when at most 16 bytes are unread.
C15_BufferFlags ==
  (op \in {"load", "step"} /\ eng.frameData # Null)
    => /\ eng.bufferEmpty <=> StreamExhausted(eng)
       /\ eng.bufferLow <=> (UnreadBytes(eng) <= 16)

\* C16: when the stream ends inside a frame, decodeFrames ends its result
\* with a stop frame (the frame cut short is not emitted) and surfaces
\* MalformedBitstream.
C16_MalformedBitstream ==
  (codec.pc = "decoded" /\ codec.pos > Len(codec.bytes) * 8)
    => /\ Len(codec.out) > 0
       /\ codec.out[Len(codec.out)].type = "stop"
       /\ "MalformedBitstream" \in surfaced

\* C17: the energy, pitch and K values synthesizeFromFrames works with are
\* within the valid ranges, whatever the frames hold: energy in 0..114,
\* pitch in 0..159, every |K| below 512.
C17_FrameParametersClamped ==
  op = "synthesizeFromFrames"
    => /\ eng.targetEnergy \in 0..114
       /\ eng.targetPitch \in 0..159
       /\ \A i \in 1..10 : Abs(eng.targetK[i]) < 512

\* bit j of a byte stream, least significant bit of each byte first
RefBit(bytes, j) == (bytes[(j \div 8) + 1] \div Pow2(j % 8)) % 2

\* the value of the field of width w at stream position s: bit s + i of the
\* stream is bit i of the value
RECURSIVE RefField(_, _, _)
RefField(bytes, s, w) ==
  IF w = 0 THEN 0
  ELSE RefField(bytes, s, w - 1) + RefBit(bytes, s + w - 1) * Pow2(w - 1)

\* the widths of the frame variants
FrameWidth(f) ==
  IF f.type \in {"stop", "silence"} THEN 4
  ELSE IF f.type = "repeat" THEN 11
  ELSE IF f.type = "unvoiced" THEN 29
  ELSE 50

\* the stream position of frame i of a frame list
RECURSIVE FrameStart(_, _)
FrameStart(fl, i) ==
  IF i = 1 THEN 0 ELSE FrameStart(fl, i - 1) + FrameWidth(fl[i - 1])

\* the number of K indices a frame carries in the stream
FrameKs(f) ==
  IF f.type = "voiced" THEN 10 ELSE IF f.type = "unvoiced" THEN 4 ELSE 0

\* the fields of frame f are the fields of the stream at position s
FieldsMatch(bytes, s, f) ==
  /\ RefField(bytes, s, 4) = f.energyIndex
  /\ f.type \notin {"stop", "silence"}
       => /\ RefField(bytes, s + 4, 1) = (IF f.repeat THEN 1 ELSE 0)
          /\ RefField(bytes, s + 5, 6) = f.pitchIndex
  /\ \A j \in 1..FrameKs(f) :
       RefField(bytes, s + 11 + KOffset(j - 1), K_BITS[j]) = f.kIndices[j]

\* the frames of fl that lie within the stream are its fields
FramesMatch(bytes, fl) ==
  \A i \in 1..Len(fl) :
    FrameStart(fl, i) + FrameWidth(fl[i]) <= Len(bytes) * 8
      => FieldsMatch(bytes, FrameStart(fl, i), fl[i])

\* the targets of the engine after loadSpeechData are the fields of the
\* first frame f of the stream
TargetsMatch(e, f) ==
  /\ e.targetEnergy = (IF f.type \in {"stop", "silence"}
                        THEN 0 ELSE ENERGY_TABLE[f.energyIndex + 1])
  /\ f.type \notin {"stop", "silence"}
       => e.targetPitch = PITCH_TABLE[f.pitchIndex + 1]
  /\ \A j \in 1..FrameKs(f) : e.targetK[j] = K_TABLES[j][f.kIndices[j] + 1]

\* C18: bit j of a stream is bit (j mod 8) of byte floor(j / 8), and a field
\* of width w at position s has the value sum of bit(s + i) * 2^i, across
\* byte boundaries too: encodeFrames writes every field of every frame that
\* way, decodeFrames reads every field that way, and so does the engine's
\* readBits for the first frame of a loaded stream.
C18_BitOrder ==
  /\ codec.pc \in {"encoded", "roundtrip"}
       => \A i \in 1..Len(codec.F) :
            FieldsMatch(codec.bytes, FrameStart(codec.F, i), codec.F[i])
  /\ codec.pc \in {"decoded", "roundtrip"}
       => FramesMatch(codec.bytes, codec.out)
  /\ (codec.pc \in {"decoded", "roundtrip"} /\ op = "load"
        /\ Len(codec.out) > 0
        /\ FrameWidth(codec.out[1]) <= Len(codec.bytes) * 8)
       => TargetsMatch(eng, codec.out[1])

C18_Witness ==
  /\ codec.pc = "roundtrip"
  /\ op = "load"
  /\ codec.F = << VoicedS3, UnvoicedS4 >>
  /\ RefField(codec.bytes, 5, 6) = 30
  /\ RefField(codec.bytes, 50 + 11 + 10, 4) = 8
  /\ eng.targetPitch = PITCH_TABLE[31]

\* the variant a frame's fields stand for
Classify(f) ==
  IF f.energyIndex = 15 THEN "stop"
  ELSE IF f.energyIndex = 0 THEN "silence"
  ELSE IF f.repeat THEN "repeat"
  ELSE IF f.pitchIndex = 0 THEN "unvoiced"
  ELSE "voiced"

\* C19: decodeFrames classifies every frame by its fields alone and reads 4
\* bits for a stop or silence frame, 11 for a repeat frame, 29 for an
\* unvoiced frame and 50 for a voiced frame; K5..K10 of an unvoiced frame are
\* zero.  The engine's readNextFrame reads the first frame of a loaded
\* stream the same way.
C19_FrameLayout ==
  /\ codec.pc \in {"decoded", "roundtrip"}
       => /\ \A i \in 1..Len(codec.out) :
               /\ codec.out[i].type = Classify(codec.out[i])
               /\ codec.out[i].type = "unvoiced"
                    => \A j \in 5..10 : /\ codec.out[i].kIndices[j] = 0
                                         /\ codec.out[i].k[j] = 0
          /\ codec.pos = FrameStart(codec.out, Len(codec.out) + 1)
  /\ (codec.pc \in {"decoded", "roundtrip"} /\ op = "load"
        /\ Len(codec.out) > 0
        /\ FrameWidth(codec.out[1]) <= Len(codec.bytes) * 8)
       => /\ eng.frameBitPos = FrameWidth(codec.out[1])
          /\ eng.speaking = (codec.out[1].type # "stop")
          /\ codec.out[1].type = "unvoiced"
               => \A j \in 5..10 : eng.targetK[j] = 0

C19_Witness ==
  /\ codec.pc = "roundtrip"
  /\ op = "load"
  /\ codec.F = << UnvoicedS4, RepeatF(8, 30) >>
  /\ codec.pos = 29 + 11 + 4
  /\ eng.frameBitPos = 29
  /\ eng.targetK[4] # 0

\* the number of bits encodeFrames is to write for F: the frames' bits and
\* the stop code appended when F is empty or does not end with a stop frame
TotalBits(fl) == FrameStart(WithTerminalStop(fl), Len(WithTerminalStop(fl)) + 1)

\* C20: the stream encodeFrames returns ends with a stop code, appended
\* behind the last frame's bits when F is empty or does not end with a stop
\* frame; it has ceil(totalBits / 8) bytes, and the bits of the last byte
\* behind the stop code are 0.
C20_EncoderTerminates ==
  codec.pc \in {"encoded", "roundtrip"}
    => /\ Len(codec.bytes) = (TotalBits(codec.F) + 7) \div 8
       /\ \A b \in 1..Len(codec.bytes) : codec.bytes[b] \in 0..255
       /\ RefField(codec.bytes, TotalBits(codec.F) - 4, 4) = 15
       /\ \A j \in TotalBits(codec.F)..(Len(codec.bytes) * 8 - 1) :
            RefBit(codec.bytes, j) = 0

C20_Witness ==
  /\ codec.pc = "encoded"
  /\ codec.F = << VoicedS3 >>
  /\ TotalBits(codec.F) = 54
  /\ Len(codec.bytes) = 7
  /\ codec.bytes[7] = 62

\* the first frame of the stream the engine e was loaded with
FirstFrame(e) == decodeFrames(e.frameData[1])[1]

\* C21: after loadSpeechData on an engine in the reset state, if the first
\* frame of the stream is not a stop frame, speaking and talkStatus are true,
\* the targets are the table values of the first frame (K targets the frame
\* does not carry are 0) and current energy, pitch and K are 0; if the first
\* frame is a stop frame, speaking and talkStatus are false at once and
\* synthesize returns no samples.
C21_LoadState ==
  op = "synthesize"
    => /\ (pc = "synthesize" /\ nSamples = 0 /\ FirstFrame(eng).type # "stop")
            => /\ eng.speaking
               /\ eng.talkStatus
               /\ TargetsMatch(eng, FirstFrame(eng))
               /\ FirstFrame(eng).type = "silence" => eng.targetPitch = 0
               /\ \A j \in (FrameKs(FirstFrame(eng)) + 1)..10 : eng.targetK[j] = 0
               /\ eng.currentEnergy = 0
               /\ eng.currentPitch = 0
               /\ eng.currentK = Zeros(10)
       /\ FirstFrame(eng).type = "stop"
            => /\ ~eng.speaking
               /\ ~eng.talkStatus
               /\ nSamples = 0
               /\ tail = <<>>

C21_Witness ==
  /\ op = "synthesize"
  /\ pc = "synthesize"
  /\ nSamples = 0
  /\ FirstFrame(eng) = decodeFrames(encodeFrames(<< VoicedS3 >>))[1]
  /\ eng.speaking
  /\ eng.targetEnergy = ENERGY_TABLE[9]
  /\ eng.targetK[10] = K10_TABLE[5]
  /\ eng.currentEnergy = 0

\* the shapes of the constant tables, for a chirp table of chirpLength entries
TableShapes(chirpLength) ==
  /\ Len(ENERGY_TABLE) = 16
  /\ Len(PITCH_TABLE) = 64
  /\ Len(K_TABLES) = 10
  /\ Len(K_BITS) = 10
  /\ [ i \in 1..10 |-> Len(K_TABLES[i]) ] = << 32, 32, 16, 16, 16, 16, 16, 8, 8, 8 >>
  /\ \A i \in 1..10 : Len(K_TABLES[i]) = Pow2(K_BITS[i])
  /\ Len(CHIRP_TABLE) = chirpLength
  /\ Len(CHIRP_TABLE_SIGNED) = chirpLength
  /\ \A i \in 1..Len(CHIRP_TABLE_SIGNED) : CHIRP_TABLE_SIGNED[i] \in -128..127
  /\ INTERP_COEFF = << 0, 3, 3, 3, 2, 2, 1, 1 >>
  /\ SAMPLE_RATE = 8000
  /\ SAMPLES_PER_FRAME = 200
  /\ INTERP_PERIODS = 8
  /\ SAMPLES_PER_INTERP = 25
  /\ SAMPLES_PER_FRAME = INTERP_PERIODS * SAMPLES_PER_INTERP

\* every index decodeFrames read is an index of its table
IndicesInRange ==
  codec.pc \in {"decoded", "roundtrip"}
    => \A i \in 1..Len(codec.out) :
         /\ codec.out[i].energyIndex + 1 \in DOMAIN ENERGY_TABLE
         /\ codec.out[i].type \in {"repeat", "unvoiced", "voiced"}
              => codec.out[i].pitchIndex + 1 \in DOMAIN PITCH_TABLE
         /\ codec.out[i].type \in {"unvoiced", "voiced"}
              => \A j \in 1..10 : codec.out[i].kIndices[j] + 1 \in DOMAIN K_TABLES[j]

StableK(k) == \A i \in 1..10 : Abs(k[i]) < 512

\* the delay line of the lattice called with a stable K-vector is finite
LatticeBounded ==
  (lat.calls > 0 /\ StableK(lat.k))
    => \A i \in 1..10 : IsFinite(lat.delay[i])

\* the value returned with a K-vector of magnitude at most 512 is in the
\* 14-bit range
LatticeClipsTo512 ==
  (lat.calls > 0 /\ \A i \in 1..10 : Abs(lat.k[i]) <= 512)
    => lat.out \in -8192..8191

\* C23: with a K-vector whose |k[i]| / 512 are all below 1 and a bounded
\* excitation * energy input, the delay line of the lattice stays bounded
\* over any number of processTMS5220 calls; and whatever the K-vector, the
\* value a call returns is in the 14-bit range -8192 .. 8191.
C23_LatticeStable ==
  /\ LatticeBounded
  /\ lat.calls > 0 => lat.out \in -8192..8191

\* r is target for a shift of 0, and otherwise current + q, q being the
\* integer with q * 2^shift <= target - current < (q + 1) * 2^shift (the
\* quotient rounded toward negative infinity); r lies between current and
\* target
InterpolatesTo(r, current, target, shift) ==
  /\ shift = 0 => r = target
  /\ shift > 0
       => /\ (r - current) * Pow2(shift) <= target - current
          /\ target - current < (r - current + 1) * Pow2(shift)
  /\ Min(current, target) <= r
  /\ r <= Max(current, target)

\* whether a generateSample call is due that computes a sample, and the
\* engine as that call finds it
SampleDue ==
  \/ pc = "synthesize" /\ SynthContinues(eng, maxSamples)
  \/ pc = "frames" /\ fpos[1] <= Len(frames) + 1

NextSampleEngine ==
  IF pc = "frames" THEN FramesBefore(eng, frames, fpos) ELSE eng

\* the interpolated parameters of a generateSample call on e are as C24 says
InterpolationHolds(e, shifts) ==
  /\ e.interpCount \in 0..7
  /\ InterpolatesTo(EffectiveEnergy(e), e.currentEnergy, e.targetEnergy,
                    shifts[e.interpCount + 1])
  /\ InterpolatesTo(EffectivePitch(e), e.currentPitch, e.targetPitch,
                    shifts[e.interpCount + 1])
  /\ \A i \in 1..10 :
       InterpolatesTo(EffectiveK(e)[i], e.currentK[i], e.targetK[i],
                      shifts[e.interpCount + 1])

\* C24: in every sub-period p of 0..7 and for energy, pitch and each of the
\* ten K values alike, the value generateSample uses is the target when
\* shift[p] = 0 and otherwise current + floor((target - current) / 2^shift[p]),
\* shift = 0, 3, 3, 3, 2, 2, 1, 1; a negative difference is rounded toward
\* negative infinity, and the value lies between current and target.
C24_Interpolation ==
  SampleDue => InterpolationHolds(NextSampleEngine, << 0, 3, 3, 3, 2, 2, 1, 1 >>)

C24_Witness ==
  /\ pc = "synthesize"
  /\ SynthContinues(eng, maxSamples)
  /\ eng.interpCount = 1
  /\ eng.currentK[5] = 43
  /\ eng.targetK[5] = 0
  /\ EffectiveK(eng)[5] = 37
  /\ eng.currentEnergy = 16
  /\ EffectiveEnergy(eng) = 14

\* a generateSample call of synthesize that stays within the frame that
\* readNextFrame call number n made the target
WithinFrame(n) ==
  /\ pc = "synthesize"
  /\ pulls = n
  /\ pulls' = n
  /\ nSamples' = nSamples + 1
  /\ eng.speaking
  /\ eng'.speaking

\* C25: in the first frame after a load on a reset engine (current energy 0,
\* target energy E > 0) the energy generateSample uses never falls from one
\* sample to the next: over sub-periods 0, 1, ..., 7 it is non-decreasing,
\* the frame ramps up from silence toward E.
C25_RisingEnvelope ==
  [][ (WithinFrame(1) /\ eng.currentEnergy = 0 /\ eng.targetEnergy > 0)
        => EffectiveEnergy(eng') >= EffectiveEnergy(eng) ]_vars

\* C26: during a silence frame that follows a frame with energy E > 0, the
\* energy generateSample uses is not 0 at the start of the frame and never
\* rises from one sample to the next: over sub-periods 0, 1, ..., 7 it is
\* non-increasing, decaying toward 0 over the frame.
C26_SilenceDecay ==
  [][ ((\E n \in 2..(MaxStreamFrames + 1) : WithinFrame(n))
         /\ eng.currentEnergy > 0 /\ eng.targetEnergy = 0)
        => /\ EffectiveEnergy(eng') <= EffectiveEnergy(eng)
           /\ eng.interpCount = 0 => EffectiveEnergy(eng) > 0 ]_vars

\* the current values of the engine e are the values of the caller's frame f
StartsFrom(e, f) ==
  /\ e.currentEnergy = f.energy
  /\ e.currentPitch = f.pitch
  /\ "k" \in f.has => e.currentK = f.k

\* C27: in synthesizeFromFrames, for every frame of the list after the
\* first, the current energy, pitch and K values that the 200 generateSample
\* calls of the frame interpolate from are the energy, pitch and K values of
\* the frame before it: the former targets, promoted at the frame boundary.
C27_FramesPromotion ==
  (pc = "frames" /\ fpos[1] \in 2..Len(frames))
    => StartsFrom(NextSampleEngine, frames[fpos[1] - 1])

\* C28: in synthesizeFromFrames, during the 200 samples of the final frame
\* appended behind the caller's last frame the current energy is the last
\* frame's energy E and the target energy is 0; for E >= 2 the energy used in
\* sub-periods 1..7 is positive and below E, not 0.
C28_FinalFrameDecays ==
  (pc = "frames" /\ Len(frames) >= 1 /\ fpos[1] = Len(frames) + 1)
    => /\ NextSampleEngine.currentEnergy = frames[Len(frames)].energy
       /\ NextSampleEngine.targetEnergy = 0
       /\ (frames[Len(frames)].energy >= 2 /\ NextSampleEngine.interpCount \in 1..7)
            => /\ EffectiveEnergy(NextSampleEngine) > 0
               /\ EffectiveEnergy(NextSampleEngine) < frames[Len(frames)].energy

\* C29: in synthesize, the generateSample call that completes the 200th
\* sample of a frame makes the current energy, pitch and K values exactly the
\* targets held during that frame, whatever the next frame is (voiced,
\* unvoiced, repeat, silence or stop): the targets are copied before the next
\* frame's fields are decoded.
C29_TargetsPromoted ==
  [][ (pc = "synthesize" /\ nSamples' = nSamples + 1 /\ pulls' = pulls + 1)
        => /\ eng'.currentEnergy = eng.targetEnergy
           /\ eng'.currentPitch = eng.targetPitch
           /\ eng'.currentK = eng.targetK ]_vars

C29_Witness ==
  /\ pc = "synthesize"
  /\ nSamples = 200
  /\ pulls = 2
  /\ eng.currentEnergy = ENERGY_TABLE[9]
  /\ eng.currentPitch = PITCH_TABLE[31]
  /\ eng.currentK = KValues(VoicedS3.kIndices)
  /\ eng.targetEnergy = ENERGY_TABLE[8]
  /\ eng.targetPitch = 0

\* frame n of the stream the engine e was loaded with
StreamFrame(e, n) == decodeFrames(e.frameData[1])[n]

\* the energy and pitch targets of e are the table values of the frame f
EnergyPitchOf(e, f) ==
  /\ e.targetEnergy = ENERGY_TABLE[f.energyIndex + 1]
  /\ e.targetPitch = PITCH_TABLE[f.pitchIndex + 1]

\* the load of synthesize reads a repeat frame as the first frame
LoadsRepeat ==
  /\ pc = "idle"
  /\ pc' = "synthesize"
  /\ StreamFrame(eng', 1).type = "repeat"

\* a generateSample call of synthesize reads a repeat frame as the next frame
PullsRepeat ==
  /\ pc = "synthesize"
  /\ nSamples' = nSamples + 1
  /\ pulls' = pulls + 1
  /\ StreamFrame(eng, pulls + 1).type = "repeat"

\* C30: reading a repeat frame leaves the ten K targets as they were before
\* the frame and sets the energy and pitch targets from the tables; a repeat
\* frame that is the first frame of the stream, or that follows a silence
\* frame, plays with all K targets 0.
C30_RepeatKeepsK ==
  [][ /\ LoadsRepeat
        => /\ eng'.targetK = Zeros(10)
           /\ EnergyPitchOf(eng', StreamFrame(eng', 1))
      /\ PullsRepeat
        => /\ eng'.targetK = eng.targetK
           /\ EnergyPitchOf(eng', StreamFrame(eng, pulls + 1))
           /\ StreamFrame(eng, pulls).type = "silence"
                => eng'.targetK = Zeros(10) ]_vars

C30_Witness ==
  /\ pc = "synthesize"
  /\ nSamples = 200
  /\ pulls = 2
  /\ StreamFrame(eng, 1).type = "voiced"
  /\ StreamFrame(eng, 2).type = "repeat"
  /\ eng.targetK = KValues(VoicedS3.kIndices)
  /\ eng.targetEnergy = ENERGY_TABLE[12]
  /\ eng.targetPitch = PITCH_TABLE[41]

\* the load of synthesize reads a frame of variant t as the first frame
LoadsFrame(t) ==
  /\ pc = "idle"
  /\ pc' = "synthesize"
  /\ StreamFrame(eng', 1).type = t

\* a generateSample call of synthesize reads a frame of variant t as the
\* next frame
PullsFrame(t) ==
  /\ pc = "synthesize"
  /\ nSamples' = nSamples + 1
  /\ pulls' = pulls + 1
  /\ StreamFrame(eng, pulls + 1).type = t

\* the engine e has just read a silence frame
AfterSilence(e) ==
  /\ e.targetEnergy = 0
  /\ e.targetPitch = 0
  /\ e.targetK = Zeros(10)
  /\ e.interpCount = 0
  /\ e.sampleCount = 0
  /\ e.speaking
  /\ e.talkStatus

\* the engine e has just read a stop frame that began at bit position pos
AfterStop(e, pos) ==
  /\ ~e.speaking
  /\ ~e.talkStatus
  /\ e.frameBitPos = pos + 4

\* C31: reading a silence frame sets the energy, pitch and all ten K targets
\* to 0, resets interpCount and sampleCount to 0 and leaves speaking true;
\* reading a stop frame sets speaking and talkStatus to false and reads no
\* bits beyond the four of the stop code, then or later.
C31_SilenceAndStop ==
  [][ /\ LoadsFrame("silence") => AfterSilence(eng')
      /\ PullsFrame("silence") => AfterSilence(eng')
      /\ LoadsFrame("stop") => AfterStop(eng', 0)
      /\ PullsFrame("stop") => AfterStop(eng', eng.frameBitPos)
      /\ (op = "synthesize" /\ op' = "synthesize" /\ pc' # "synthesize")
           => eng'.frameBitPos = eng.frameBitPos ]_vars

C31_Witness ==
  /\ pc = "synthesize"
  /\ nSamples = 200
  /\ pulls = 2
  /\ StreamFrame(eng, 1).type = "voiced"
  /\ StreamFrame(eng, 2).type = "silence"
  /\ eng.currentK = KValues(VoicedS3.kIndices)
  /\ eng.targetK = Zeros(10)
  /\ eng.targetPitch = 0
  /\ eng.speaking

\* C32: synthesize applies no fade-out: the samples it returns are exactly
\* the values its generateSample calls returned, the trailing ones included.
C32_NoFade ==
  [][ (pc = "synthesize" /\ pc' = "idle") => tail' = tail ]_vars

\* the chirp value at cursor position c: 0 beyond the end of the table
ChirpAt(c) ==
  IF c < Len(CHIRP_TABLE_SIGNED) THEN CHIRP_TABLE_SIGNED[c + 1] ELSE 0

\* the sequence s repeats with period q
Periodic(s, q) == \A i \in 1..(Len(s) - q) : s[i] = s[i + q]

\* C33: with a constant pitch P > 0 and the pitch cursor starting at 0,
\* call n of generateExcitation returns the chirp value at cursor position
\* (n - 1) mod P, which is CHIRP[c] for c below the length of the chirp table
\* and 0 otherwise (no read beyond the table, no wrap inside it), and leaves
\* the cursor at n mod P; the values returned repeat with period P and, over
\* two full periods, with no shorter period.
C33_VoicedExcitation ==
  exc.calls > 0
    => /\ exc.pitch > 0
       /\ ret = ChirpAt((exc.calls - 1) % exc.pitch)
       /\ eng.pitchCount = exc.calls % exc.pitch
       /\ eng.pitchCount \in 0..(exc.pitch - 1)
       /\ Periodic(exc.out, exc.pitch)
       /\ exc.calls = 2 * exc.pitch
            => \A q \in 1..(exc.pitch - 1) : ~Periodic(exc.out, q)

C33_Witness ==
  /\ exc.pitch = 60
  /\ exc.calls = 2 * 60 + 6
  /\ exc.out[6] = 108
  /\ exc.out[53] = 0
  /\ exc.out[54] = 0
  /\ exc.out[61] = 0
  /\ exc.out[62] = 3
  /\ ret = 108
  /\ eng.pitchCount = 6

\* a step of either render that computes a sample
SampleStep == SampleDue /\ nSamples' = nSamples + 1

CountersInRange(e) ==
  /\ e.interpCount \in 0..(INTERP_PERIODS - 1)
  /\ e.sampleCount \in 0..(SAMPLES_PER_INTERP - 1)
  /\ e.interpCount + 1 \in DOMAIN INTERP_COEFF
  /\ e.pitchCount >= 0
  /\ e.pitchCount < Len(CHIRP_TABLE_SIGNED)
       => e.pitchCount + 1 \in DOMAIN CHIRP_TABLE_SIGNED

\* C35: between public operations interpCount is in 0..7 and sampleCount in
\* 0..24, and every generateSample call, of synthesize, of
\* synthesizeFromFrames or made by hand, finds the counters in range and
\* indexes INTERP_COEFF and the chirp table within their bounds.
C35_CounterInvariant ==
  /\ pc = "idle" => CountersInRange(eng)
  /\ SampleDue => CountersInRange(NextSampleEngine)

C35_Witness ==
  /\ pc = "idle"
  /\ op = "synthesizeFromFrames"
  /\ Len(frames) = 1
  /\ nSamples = 2 * SAMPLES_PER_FRAME
  /\ pulls = 2
  /\ eng.interpCount = 0
  /\ eng.sampleCount = 0
  /\ eng.pitchCount > 0

\* every entry of the energy table is in 0..114, of the pitch table in
\* 0..159, and of the K tables strictly between -512 and 512
TablesInRange ==
  /\ \A i \in DOMAIN ENERGY_TABLE : ENERGY_TABLE[i] \in 0..114
  /\ \A i \in DOMAIN PITCH_TABLE : PITCH_TABLE[i] \in 0..159
  /\ \A j \in DOMAIN K_TABLES :
       \A i \in DOMAIN K_TABLES[j] : Abs(K_TABLES[j][i]) < 512

\* C36: in synthesize the interpolated energy is always in 0..114, the
\* interpolated pitch in 0..159 and every interpolated K strictly between
\* -512 and 512 (the tables hold no other values and interpolation stays
\* between current and target), so the lattice runs with |k[i]| / 512 < 1.
C36_EffectiveRanges ==
  /\ TablesInRange
  /\ op = "synthesize"
       => /\ EffectiveEnergy(eng) \in 0..114
          /\ EffectivePitch(eng) \in 0..159
          /\ StableK(EffectiveK(eng))
          /\ StableK(eng.currentK)
          /\ StableK(eng.targetK)

C36_Witness ==
  /\ op = "synthesize"
  /\ pc = "synthesize"
  /\ pulls = 1
  /\ eng.interpCount = 6
  /\ eng.targetK = KValues(VoicedS3.kIndices)
  /\ EffectiveK(eng)[1] = -206
  /\ EffectiveEnergy(eng) = 8
  /\ EffectivePitch(eng) = 23

\* the targets after the first n frames of the frame list fl, from targets
\* of 0: a repeat frame keeps the K values, a silence frame sets everything
\* to 0, a stop frame sets the energy to 0
RECURSIVE FoldTargets(_, _)

FoldFrame(t, f) ==
  IF f.type = "stop" THEN [t EXCEPT !.energy = 0]
  ELSE IF f.type = "silence" THEN [energy |-> 0, pitch |-> 0, k |-> Zeros(10)]
  ELSE IF f.type = "repeat" THEN [t EXCEPT !.energy = f.energy, !.pitch = f.pitch]
  ELSE [energy |-> f.energy, pitch |-> f.pitch, k |-> f.k]

FoldTargets(fl, n) ==
  IF n = 0 THEN [energy |-> 0, pitch |-> 0, k |-> Zeros(10)]
  ELSE FoldFrame(FoldTargets(fl, n - 1), fl[n])

\* the engine, having read `pulls' frames of the stream, is where the frame
\* list fl says: same bit position, same targets, stopped exactly by a stop
\* frame, and stopped by the end of the list
AgreesWith(fl) ==
  /\ Len(fl) >= pulls
  /\ eng.frameBitPos = FrameStart(fl, pulls + 1)
  /\ [energy |-> eng.targetEnergy, pitch |-> eng.targetPitch, k |-> eng.targetK]
       = FoldTargets(fl, pulls)
  /\ eng.speaking <=> fl[pulls].type # "stop"
  /\ pulls = Len(fl) => ~eng.speaking

\* the engine and decodeFrames agree on the streams encodeFrames wrote
AgreeOnEncoded ==
  (codec.pc = "roundtrip" /\ op \in {"load", "pull"}) => AgreesWith(codec.out)

\* C37: for every bitstream, the frames the engine reads up to and including
\* the first stop frame are the frames decodeFrames returns: same bit
\* positions, same energy, pitch and K targets (a repeat frame keeping the
\* K values, a silence frame zeroing everything, an unvoiced frame zeroing
\* K5..K10).
C37_ParsersAgree ==
  (codec.pc \in {"decoded", "roundtrip"} /\ op \in {"load", "pull"})
    => AgreesWith(codec.out)

(***************************************************************************)
(* C38: no state leaks between renders.  The samples of synthesize(data)   *)
(* and of synthesizeFromFrames(frames) on an engine that has been loaded,  *)
(* stepped and rendered with before are, sample by sample, those of an     *)
(* engine made for the call alone, and the two engines are in the same     *)
(* state all along the render and after it.                                *)
(***************************************************************************)
C38_NoStateLeak ==
  (op \in { "synthesize", "synthesizeFromFrames" }) =>
    (eng = twin /\ ret = twinRet)

\* a render that has produced a frame of samples on an engine which had
\* been loaded with a bitstream and stepped by hand through the first
\* samples of it before the render began
C38_Witness ==
  /\ op \in { "synthesize", "synthesizeFromFrames" }
  /\ nSamples >= SAMPLES_PER_FRAME
  /\ ret # 0
  /\ loads > 0
  /\ manual = MaxManualSteps
  /\ eng = twin
  /\ ret = twinRet

(***************************************************************************)
(* C39: while the engine plays a frame whose target pitch is 0, every      *)
(* sample takes its excitation from the noise generator: the noise         *)
(* register advances by one shift per sample and the pitch cursor stays,   *)
(* whatever the pitch of the frame before; no chirp sample is emitted.     *)
(***************************************************************************)
\* the sample that is due advances the noise register and not the cursor
NoiseSample(e) ==
  /\ \E r \in Rnd : eng'.noiseRegister = NoiseShift(e.noiseRegister, r)
  /\ eng'.pitchCount = e.pitchCount

\* the sample that is due belongs to a frame of target pitch 0
UnvoicedDue(e) == e.speaking /\ e.targetPitch = 0

C39_UnvoicedNoise ==
  [][ (SampleStep /\ UnvoicedDue(NextSampleEngine))
        => NoiseSample(NextSampleEngine) ]_vars

\* what the code gives: noise on the samples whose interpolated pitch is 0
C39_NoiseAtPitchZero ==
  [][ (SampleStep /\ NextSampleEngine.speaking
         /\ EffectivePitch(NextSampleEngine) = 0)
        => NoiseSample(NextSampleEngine) ]_vars

(***************************************************************************)
(* C40: on the page, whenever an audio source started by playAudio is      *)
(* still playing, isPlaying is true and the Stop button is enabled, under  *)
(* every interleaving of Speak clicks, Ctrl+Enter, Stop, Escape and ended  *)
(* events; the ended event of a source that was stopped to start a new     *)
(* playback leaves both as they are for the new playback.                  *)
(***************************************************************************)
\* a source started by playAudio is still playing
SomePlaying == \E s \in 1..Len(ui.sources) : ui.sources[s] = "playing"

C40_PlayingShown == SomePlaying => (ui.isPlaying /\ ~ui.stopDisabled)

\* what the code gives: no source but the one in audioSource plays
C40_OnePlays ==
  \A s \in 1..Len(ui.sources) :
    ui.sources[s] = "playing" => s = ui.audioSource

=============================================================================
